---------------------------- MODULE Spec2Model ----------------------------
(***************************************************************************)
(* A model of the trip-planning pipeline of the NOT A CAR backend:         *)
(*   - the LLM fallback wrapper        (backend/src/llm/fallback.py)       *)
(*   - the LLM response parsers        (backend/src/llm/service.py)        *)
(*   - the streaming orchestrator      (backend/src/routing/service.py)    *)
(*   - the candidate generator         (backend/src/routing/route_generator.py) *)
(*   - the location index              (backend/src/geocoding/cache.py)    *)
(* Each part has its own specification over the shared variables; the      *)
(* variables of the other parts stay at their initial values.              *)
(***************************************************************************)
EXTENDS Integers, Sequences, FiniteSets, TLC

VARIABLES
    clients,            \* FallbackLLMClient._clients: provider values, in fallback order
    failed_providers,   \* FallbackLLMClient._failed_providers
    active_client,      \* FallbackLLMClient._active_client (its provider value)
    call,               \* the chat / chat_fast / chat_stream coroutines in flight
    marked,             \* history: providers marked failed since the failure set was last cleared
    observe,            \* whether the calls' histories (tried, start_failed, out) are recorded
    llm_response,       \* the text a model answered, as [fence, prose, body]
    original_query,     \* the caller's query
    route_ids,          \* the ids of context.route_candidates, in order
    parse_out,          \* what a parser gave its caller: [op, exc, value]
    stream,             \* suggest_route_stream: [pc, events, ntok, ncand, propagated]
    cache,              \* LocationCache: [locations, name_index, type_index, tag_index, prefecture_index, loaded]
    file,               \* the dataset file at cache_path: [state, entries]
    gen,                \* the calls on the cache and the generator: [op, extraction, count, arg, out, loads, ok]
    poly,               \* a call of the polyline codec: [op, coords, legs, out]
    seg,                \* a call of _calculate_segment: [op, entries, start, start_location_id, end, out]
    know,               \* a call of KnowledgeSearch.search: [op, query, n_results, require_ev_charging, require_overnight_parking, out]
    trip,               \* a call of generate_candidates with waypoints: [op, entries, extraction, out]
    sug                 \* a run of suggest_route or suggest_route_stream: [op, extraction, candidates, exc, ranking, routes]

fbVars == <<clients, failed_providers, active_client, call, marked, observe>>

parseVars == <<llm_response, original_query, route_ids, parse_out>>

vars == <<clients, failed_providers, active_client, call, marked, observe,
          llm_response, original_query, route_ids, parse_out, stream, cache, file, gen,
          poly, seg, know, trip, sug>>

genVars == <<cache, file, gen>>

toolVars == <<poly, seg, know, trip, sug>>

(***************************************************************************)
(* Bounds                                                                  *)
(***************************************************************************)
NCalls == 2     \* coroutines that may be in flight on one wrapper at the same time
MaxTok == 2     \* tokens one variant's stream yields before it ends
MaxWp == 2      \* entries of a decoded waypoints array
MaxCand == 4    \* candidates the generation step of a stream hands on
MaxLoc == 3     \* entries of a dataset file
MaxCount == 4   \* the count argument of generate_candidates
MaxLoads == 2   \* explicit load() calls on one cache

(***************************************************************************)
(* Small helpers                                                           *)
(***************************************************************************)
Range(s) == {s[i] : i \in 1..Len(s)}

Last(s) == s[Len(s)]

MinOf(S) == CHOOSE x \in S : \A y \in S : x <= y

(***************************************************************************)
(* FallbackLLMClient                                                       *)
(***************************************************************************)

\* The chains LLMService._build_fallback_chain builds: cloud first or local
\* first, cloud only with an API key, the mock always last.
Chains ==
    { <<"cloud", "local", "mock">>,
      <<"local", "cloud", "mock">>,
      <<"local", "mock">>,
      <<"mock">> }

Kinds == {"chat", "chat_fast", "chat_stream"}

Calls == 1..NCalls

\* The response of the MockLLMClient() built after every variant failed.
MockFloor == "mock_floor"

\* A coroutine: where it is (pc), the method called (kind), the client it
\* awaits (idx), its local last_error, what it returned (result), the tokens
\* its current stream has yielded (ntok); and, as history, the providers it
\* invoked (tried), the failure set it started with (start_failed) and the
\* tokens its consumer received (out).
IdleCall ==
    [pc |-> "idle", kind |-> "chat", idx |-> 0, last_error |-> FALSE,
     result |-> "none", ntok |-> 0, tried |-> <<>>, start_failed |-> {}, out |-> <<>>]

Hist(old, new) == IF observe THEN new ELSE old

\* A coroutine that ends: its locals are gone; they are kept as history only.
Ended(c, pc, result) ==
    IF observe THEN [c EXCEPT !.pc = pc, !.idx = 0, !.result = result]
               ELSE [IdleCall EXCEPT !.pc = pc, !.result = result]

\* Mutant: the failure set is not consulted.
SkippedNever(provider, failedSet) == FALSE

\* `if client.provider.value in self._failed_providers: continue`
Skipped(provider, failedSet) == provider \in failedSet

\* The for loop over self._clients, resumed after position `from`: the index
\* of the next client that is not skipped, 0 when the loop runs off the end.
\* Mutant: the loop stops one client early.
NextClientOffByOne(chain, from, failedSet) ==
    LET cand == {j \in (from + 1)..(Len(chain) - 1) : ~(chain[j] \in failedSet)}
    IN  IF cand = {} THEN 0 ELSE MinOf(cand)

NextClient(chain, from, failedSet) ==
    LET cand == {j \in (from + 1)..Len(chain) : ~Skipped(chain[j], failedSet)}
    IN  IF cand = {} THEN 0 ELSE MinOf(cand)

\* Mutant: the failure set is kept when every variant failed.
ClearedOnAllFailedKept(failedSet) == failedSet

\* What the failure set becomes when the loop has run off the end with
\* last_error set: `self._failed_providers.clear()`.
ClearedOnAllFailed(failedSet) == {}

\* Mutant: a raising variant is not marked.
MarkFailedNot(failedSet, provider) == failedSet

\* `self._failed_providers.add(client.provider.value)`
MarkFailed(failedSet, provider) == failedSet \cup {provider}

\* The loop from position `from` for coroutine k, with the failure set as it
\* is now and the coroutine's last_error: either the next client is awaited,
\* or the loop is over: with last_error the set is cleared and the mock floor
\* answers (chat, chat_fast: at once; chat_stream: token by token), without
\* it RuntimeError("No LLM clients available") is raised.
RunLoop(k, c, from, failedNow, lastErr, markedNow) ==
    LET j == NextClient(clients, from, failedNow)
    IN  IF j # 0
        THEN /\ call' = [call EXCEPT ![k] =
                    [c EXCEPT !.pc = "awaiting", !.idx = j, !.last_error = lastErr,
                              !.ntok = 0,
                              !.tried = Hist(@, Append(@, clients[j]))]]
             /\ failed_providers' = failedNow
             /\ marked' = markedNow
        ELSE IF lastErr
        THEN /\ failed_providers' = ClearedOnAllFailed(failedNow)
             /\ marked' = {}
             /\ call' = [call EXCEPT ![k] =
                    IF c.kind = "chat_stream"
                    THEN [c EXCEPT !.pc = "mock", !.idx = 0, !.last_error = lastErr,
                                   !.ntok = 0]
                    ELSE Ended([c EXCEPT !.last_error = lastErr], "returned", MockFloor)]
        ELSE /\ failed_providers' = failedNow
             /\ marked' = markedNow
             /\ call' = [call EXCEPT ![k] =
                    Ended(c, "raised", "RuntimeError")]

\* A caller enters chat, chat_fast or chat_stream: last_error = None and the
\* loop starts at the first client.
StartCall(k, kind) ==
    /\ call[k].pc \in {"idle", "returned", "raised"}
    /\ RunLoop(k, [IdleCall EXCEPT !.kind = kind,
                                   !.start_failed = Hist(@, failed_providers)],
               0, failed_providers, FALSE, marked)
    /\ UNCHANGED <<clients, active_client, observe, parseVars, stream, genVars, toolVars>>

\* The awaited client returns (chat, chat_fast) or its stream ends
\* (chat_stream): `self._active_client = client; return result`.
ActiveAfterReturn(c, chain, activeNow) ==
    IF c.kind = "chat_stream" THEN activeNow ELSE chain[c.idx]

ClientReturns(k) ==
    /\ call[k].pc = "awaiting"
    /\ call' = [call EXCEPT ![k] = Ended(call[k], "returned", clients[call[k].idx])]
    /\ active_client' = ActiveAfterReturn(call[k], clients, active_client)
    /\ UNCHANGED <<clients, failed_providers, marked, observe, parseVars, stream, genVars, toolVars>>

\* chat_stream: the awaited client's stream yields one token:
\* `self._active_client = client; yield token`.
ClientYields(k) ==
    /\ call[k].pc = "awaiting"
    /\ call[k].kind = "chat_stream"
    /\ call[k].ntok < MaxTok
    /\ call' = [call EXCEPT ![k].ntok = @ + 1,
                            ![k].out = Hist(@, Append(@, <<clients[call[k].idx],
                                                          call[k].ntok + 1>>))]
    /\ active_client' = clients[call[k].idx]
    /\ UNCHANGED <<clients, failed_providers, marked, observe, parseVars, stream, genVars, toolVars>>

\* The awaited client raises: the provider is marked failed, last_error is
\* set and the loop goes on with the next client.
ClientRaises(k) ==
    /\ call[k].pc = "awaiting"
    /\ RunLoop(k, call[k], call[k].idx,
               MarkFailed(failed_providers, clients[call[k].idx]), TRUE,
               marked \cup {clients[call[k].idx]})
    /\ UNCHANGED <<clients, active_client, observe, parseVars, stream, genVars, toolVars>>

\* chat_stream after every variant failed: the mock floor's stream yields its
\* tokens one by one (it sleeps between two), then ends.
MockYields(k) ==
    /\ call[k].pc = "mock"
    /\ call[k].ntok < MaxTok
    /\ call' = [call EXCEPT ![k].ntok = @ + 1,
                            ![k].out = Hist(@, Append(@, <<MockFloor, call[k].ntok + 1>>))]
    /\ UNCHANGED <<clients, failed_providers, active_client, marked, observe, parseVars, stream, genVars, toolVars>>

MockEnds(k) ==
    /\ call[k].pc = "mock"
    /\ call[k].ntok = MaxTok
    /\ call' = [call EXCEPT ![k] = Ended(call[k], "returned", MockFloor)]
    /\ UNCHANGED <<clients, failed_providers, active_client, marked, observe, parseVars, stream, genVars, toolVars>>

\* reset_failures()
ResetFailures ==
    /\ failed_providers' = {}
    /\ active_client' = clients[1]
    /\ marked' = {}
    /\ UNCHANGED <<clients, call, observe, parseVars, stream, genVars, toolVars>>


(***************************************************************************)
(* LLM response parsing (LLMService)                                       *)
(*                                                                         *)
(* A JSON value is a record [t, v]: t is the kind of value, v its content. *)
(* An object's content is a record of its keys; a key the object does not  *)
(* have holds JAbsent. JInvalid is a text json.loads rejects.              *)
(***************************************************************************)
JAbsent == [t |-> "absent", v |-> 0]
JInvalid == [t |-> "invalid", v |-> 0]
JNull == [t |-> "null", v |-> 0]
JBool(b) == [t |-> "bool", v |-> b]
JNum(n) == [t |-> "num", v |-> n]
JStr(str) == [t |-> "str", v |-> str]
JList(seq) == [t |-> "list", v |-> seq]
JObj(rec) == [t |-> "obj", v |-> rec]

\* Python's truth value of a decoded JSON value.
Truthy(j) ==
    CASE j.t = "null" -> FALSE
      [] j.t = "bool" -> j.v
      [] j.t = "num"  -> j.v # 0
      [] j.t = "str"  -> j.v # ""
      [] j.t = "list" -> j.v # <<>>
      [] j.t = "obj"  -> \E key \in DOMAIN j.v : j.v[key] # JAbsent
      [] OTHER        -> FALSE

\* `re.search(r'```json\s*(.*?)\s*```', response, re.DOTALL)`, then
\* json.loads of the group or, without a fenced block, of the whole response.
\* A response is [fence, prose, body]: whether the body stands in a fenced
\* json block, whether text surrounds it, and the body.
JsonLoads(response) ==
    IF response.fence THEN response.body
    ELSE IF response.prose THEN JInvalid
    ELSE response.body

\* class WaypointType(str, Enum)
WaypointTypes == {"required", "optional", "final"}

\* wp_data.get(key, default)
DictGet(obj, key, default) == IF obj.v[key] = JAbsent THEN default ELSE obj.v[key]

\* Field(..., ge=0) on an int
ValidOrder(j) == j.t = "num" /\ j.v >= 0

\* Optional[str]
ValidOptStr(j) == j.t \in {"absent", "null", "str"}

NoWaypoint == [name |-> "", type |-> "final", order |-> 0]

\* The body of the loop over data["waypoints"]: the ExtractedWaypoint of one
\* entry, or the exception it raises. WaypointType(...) raises ValueError on
\* an unknown value; ExtractedWaypoint(...) raises ValidationError, a
\* ValueError; `.get` on an entry that is no dict raises AttributeError.
ParseWaypointEntry(e) ==
    IF e.t # "obj" THEN [exc |-> "AttributeError", wp |-> NoWaypoint]
    ELSE LET ty == DictGet(e, "type", JStr("final"))
             nm == DictGet(e, "name", JStr(""))
             od == DictGet(e, "order", JNum(0))
         IN  IF ~(ty.t = "str" /\ ty.v \in WaypointTypes)
             THEN [exc |-> "ValueError", wp |-> NoWaypoint]
             ELSE IF ~(nm.t = "str" /\ ValidOrder(od)
                       /\ ValidOptStr(e.v.purpose) /\ ValidOptStr(e.v.duration_hint))
             THEN [exc |-> "ValueError", wp |-> NoWaypoint]
             ELSE [exc |-> "none",
                   wp |-> [name |-> nm.v, type |-> ty.v, order |-> od.v]]

\* `except (ValueError, KeyError): continue` around the loop body
SkippedEntry(exc) == exc \in {"ValueError", "KeyError"}

\* The loop over the entries: the waypoints kept, or the exception that
\* leaves the loop.
RECURSIVE ConvertWaypoints(_)
ConvertWaypoints(entries) ==
    IF entries = <<>> THEN [exc |-> "none", wps |-> <<>>]
    ELSE LET h == ParseWaypointEntry(Head(entries))
         IN  IF SkippedEntry(h.exc) THEN ConvertWaypoints(Tail(entries))
             ELSE IF h.exc # "none" THEN [exc |-> h.exc, wps |-> <<>>]
             ELSE LET r == ConvertWaypoints(Tail(entries))
                  IN  IF r.exc # "none" THEN r
                      ELSE [exc |-> "none", wps |-> <<h.wp>> \o r.wps]

\* `for wp_data in data["waypoints"]` over a truthy value: a list gives its
\* entries, a str its characters and a dict its keys (both str, so `.get`
\* raises AttributeError), a number or a bool is not iterable (TypeError).
IterateWaypoints(j) ==
    CASE j.t = "list" -> ConvertWaypoints(j.v)
      [] j.t \in {"str", "obj"} -> [exc |-> "AttributeError", wps |-> <<>>]
      [] OTHER -> [exc |-> "TypeError", wps |-> <<>>]

\* list[str] with default_factory=list
ValidStrList(j) ==
    \/ j.t = "absent"
    \/ j.t = "list" /\ \A i \in 1..Len(j.v) : j.v[i].t = "str"

StrList(j) == IF j.t = "list" THEN [i \in 1..Len(j.v) |-> j.v[i].v] ELSE <<>>

OptStr(j) == IF j.t = "str" THEN j.v ELSE "None"

\* The DestinationExtraction of the except branch.
DefaultExtraction(query) ==
    [waypoints |-> <<>>, facility_types |-> <<>>, amenities |-> <<>>,
     atmosphere |-> <<>>, activities |-> <<>>, time_constraints |-> "None",
     original_query |-> query]

\* `except (json.JSONDecodeError, ValueError)` of both parsers
CaughtByParser(exc) == exc \in {"JSONDecodeError", "ValueError"}

\* DestinationExtraction(**data), with the waypoints already converted (or
\* left as decoded when falsy): ValidationError is a ValueError.
BuildExtraction(obj, wps, query) ==
    IF /\ ~Truthy(obj.waypoints) => obj.waypoints \in {JAbsent, JList(<<>>)}
       /\ ValidStrList(obj.facility_types)
       /\ ValidStrList(obj.amenities)
       /\ ValidStrList(obj.atmosphere)
       /\ ValidStrList(obj.activities)
       /\ ValidOptStr(obj.time_constraints)
    THEN [exc |-> "none",
          value |-> [waypoints |-> wps,
                     facility_types |-> StrList(obj.facility_types),
                     amenities |-> StrList(obj.amenities),
                     atmosphere |-> StrList(obj.atmosphere),
                     activities |-> StrList(obj.activities),
                     time_constraints |-> OptStr(obj.time_constraints),
                     original_query |-> query]]
    ELSE [exc |-> "ValueError", value |-> DefaultExtraction(query)]

\* The try block of _parse_extraction_response: the extraction, or the
\* exception raised in it.
TryParseExtraction(response, query) ==
    LET data == JsonLoads(response)
    IN  IF data = JInvalid
        THEN [exc |-> "JSONDecodeError", value |-> DefaultExtraction(query)]
        ELSE IF data.t # "obj"      \* data["original_query"] = original_query
        THEN [exc |-> "TypeError", value |-> DefaultExtraction(query)]
        ELSE IF Truthy(data.v.waypoints)
        THEN LET c == IterateWaypoints(data.v.waypoints)
             IN  IF c.exc # "none"
                 THEN [exc |-> c.exc, value |-> DefaultExtraction(query)]
                 ELSE BuildExtraction(data.v, c.wps, query)
        ELSE BuildExtraction(data.v, <<>>, query)

\* _parse_extraction_response: what the caller gets, the value returned or
\* the exception that reaches it.
ParseExtractionResponse(response, query) ==
    LET r == TryParseExtraction(response, query)
    IN  IF CaughtByParser(r.exc)
        THEN [exc |-> "none", value |-> DefaultExtraction(query)]
        ELSE r

\* The confidence of the default recommendation, 0.3, in hundredths.
DefaultConfidence == 30

\* The RouteRecommendation of the except branch.
DefaultRecommendation(ids) ==
    [ranking |-> ids,
     recommended_id |-> IF ids # <<>> THEN ids[1] ELSE "",
     confidence |-> DefaultConfidence,
     parse_error |-> TRUE]

\* confidence: float = Field(..., ge=0.0, le=1.0), in hundredths
ValidConfidence(j) == j.t = "num" /\ j.v >= 0 /\ j.v <= 100

\* RouteRecommendation(**data): `**` of a value that is no mapping raises
\* TypeError; a missing or ill-typed field raises ValidationError.
TryParseRoute(response, ids) ==
    LET data == JsonLoads(response)
    IN  IF data = JInvalid
        THEN [exc |-> "JSONDecodeError", value |-> DefaultRecommendation(ids)]
        ELSE IF data.t # "obj"
        THEN [exc |-> "TypeError", value |-> DefaultRecommendation(ids)]
        ELSE IF /\ data.v.ranking.t = "list"
                /\ \A i \in 1..Len(data.v.ranking.v) : data.v.ranking.v[i].t = "str"
                /\ data.v.recommended_id.t = "str"
                /\ data.v.explanation.t = "str"
                /\ ValidConfidence(data.v.confidence)
        THEN [exc |-> "none",
              value |-> [ranking |-> StrList(data.v.ranking),
                         recommended_id |-> data.v.recommended_id.v,
                         confidence |-> data.v.confidence.v,
                         parse_error |-> FALSE]]
        ELSE [exc |-> "ValueError", value |-> DefaultRecommendation(ids)]

\* _parse_route_response
ParseRouteResponse(response, ids) ==
    LET r == TryParseRoute(response, ids)
    IN  IF CaughtByParser(r.exc)
        THEN [exc |-> "none", value |-> DefaultRecommendation(ids)]
        ELSE r

(***************************************************************************)
(* The parsers' inputs and steps                                           *)
(***************************************************************************)
RECURSIVE SeqsUpTo(_, _)
SeqsUpTo(S, n) ==
    IF n = 0 THEN {<<>>}
    ELSE LET shorter == SeqsUpTo(S, n - 1)
         IN  shorter \cup {Append(q, x) : q \in {r \in shorter : Len(r) = n - 1}, x \in S}

WpObj(name, type, order, purpose) ==
    JObj([name |-> name, type |-> type, order |-> order, purpose |-> purpose,
          duration_hint |-> JAbsent])

\* Entries a decoded waypoints array may hold: well-formed ones (two of them
\* with the same order, two of them final), an empty object, an unknown type,
\* a negative order, a null name, an ill-typed purpose, and entries that are
\* no objects.
WpEntries ==
    { WpObj(JStr("hakone"), JStr("required"), JNum(0), JStr("rest")),
      WpObj(JStr("kawaguchiko"), JStr("final"), JNum(1), JAbsent),
      WpObj(JStr("atami"), JStr("optional"), JNum(0), JNull),
      WpObj(JStr("fuji"), JStr("final"), JNum(2), JAbsent),
      WpObj(JAbsent, JAbsent, JAbsent, JAbsent),
      WpObj(JStr("hakone"), JStr("via"), JNum(0), JAbsent),
      WpObj(JStr("hakone"), JAbsent, JNum(-1), JAbsent),
      WpObj(JNull, JStr("final"), JNum(0), JAbsent),
      WpObj(JStr("hakone"), JStr("required"), JNum(0), JNum(30)),
      JStr("hakone"),
      JNull }

WaypointsValues ==
    {JAbsent, JNull, JNum(0), JNum(2), JStr(""), JStr("hakone"), JBool(TRUE),
     JBool(FALSE), WpObj(JStr("hakone"), JStr("final"), JNum(0), JAbsent)}
    \cup {JList(es) : es \in SeqsUpTo(WpEntries, MaxWp)}

StrListValues ==
    {JAbsent, JNull, JList(<<>>), JList(<<JStr("onsen")>>), JList(<<JNum(1)>>), JStr("onsen")}

ExtractionObjects ==
    { JObj([waypoints |-> w, facility_types |-> f, amenities |-> a, atmosphere |-> JAbsent,
            activities |-> JAbsent, time_constraints |-> JAbsent])
        : w \in WaypointsValues, f \in StrListValues, a \in {JAbsent, JList(<<JStr("ev")>>)} }
    \cup
    { JObj([waypoints |-> JAbsent, facility_types |-> JAbsent, amenities |-> JAbsent,
            atmosphere |-> m, activities |-> c, time_constraints |-> t])
        : m \in StrListValues, c \in StrListValues, t \in {JAbsent, JNull, JStr("tonight"), JNum(2)} }

\* Decoded values that are no object.
NonObjects ==
    {JNull, JBool(TRUE), JNum(0), JNum(7), JStr("onsen"), JList(<<>>), JList(<<JStr("A")>>)}

Wrappings == {<<TRUE, TRUE>>, <<TRUE, FALSE>>, <<FALSE, TRUE>>, <<FALSE, FALSE>>}

ResponsesOf(bodies) ==
    {[fence |-> w[1], prose |-> w[2], body |-> b] : w \in Wrappings, b \in bodies}

ExtractionResponses == ResponsesOf({JInvalid} \cup NonObjects \cup ExtractionObjects)

RecommendationObjects ==
    { JObj([ranking |-> r, recommended_id |-> i, explanation |-> e, confidence |-> c])
        : r \in {JAbsent, JNull, JStr("A"), JList(<<>>), JList(<<JStr("B"), JStr("A")>>),
                 JList(<<JStr("A"), JStr("A"), JStr("Z")>>), JList(<<JNum(1)>>)},
          i \in {JAbsent, JStr("A"), JNum(1)},
          e \in {JAbsent, JStr("because")},
          c \in {JAbsent, JNull, JNum(0), JNum(85), JNum(150), JNum(-1)} }

RouteResponses == ResponsesOf({JInvalid} \cup NonObjects \cup RecommendationObjects)

\* Route ids are assigned from ROUTE_IDS in order.
ROUTE_IDS == <<"A", "B", "C", "D", "E", "F", "G", "H">>

RouteIdLists == {SubSeq(ROUTE_IDS, 1, n) : n \in 1..3}

Queries == {"onsen, quiet", "via hakone to kawaguchiko"}

NoParse == [op |-> "none", exc |-> "none", value |-> <<>>]

\* extract_destination hands the model's answer to _parse_extraction_response.
ParseExtraction ==
    /\ parse_out.op = "none"
    /\ original_query \in Queries
    /\ LET r == ParseExtractionResponse(llm_response, original_query)
       IN  parse_out' = [op |-> "extraction", exc |-> r.exc, value |-> r.value]
    /\ UNCHANGED <<llm_response, original_query, route_ids, fbVars, stream, genVars, toolVars>>

\* evaluate_routes hands the model's answer to _parse_route_response.
ParseRoute ==
    /\ parse_out.op = "none"
    /\ route_ids # <<>>
    /\ LET r == ParseRouteResponse(llm_response, route_ids)
       IN  parse_out' = [op |-> "route", exc |-> r.exc, value |-> r.value]
    /\ UNCHANGED <<llm_response, original_query, route_ids, fbVars, stream, genVars, toolVars>>

(***************************************************************************)
(* The streaming orchestrator (RoutingService.suggest_route_stream)        *)
(*                                                                         *)
(* An action runs the generator to its next yield. stream.pc names the     *)
(* place the generator is suspended at, stream.events the StreamEvents the *)
(* consumer has received, as [event, step_index] (step_index None is -1).  *)
(***************************************************************************)
Event(event, step_index) == [event |-> event, step_index |-> step_index]

\* The exception classes the steps raise; all derive from Exception.
ExceptionClasses ==
    {"JSONDecodeError", "ValueError", "KeyError", "TypeError", "AttributeError",
     "RuntimeError"}

\* Mutant: the handler catches what the parsers catch.
CaughtByStreamLikeParsers(exc) == exc \in {"JSONDecodeError", "ValueError"}

\* `except Exception as e` around the whole body
CaughtByStream(exc) == exc \in ExceptionClasses

\* A step raised exc: the handler yields one ERROR event and the generator
\* ends; an exception the handler does not catch leaves the generator.
Raise(exc) ==
    IF CaughtByStream(exc)
    THEN stream' = [stream EXCEPT !.pc = "end",
                                  !.events = Append(@, Event("error", -1))]
    ELSE stream' = [stream EXCEPT !.pc = "end", !.propagated = TRUE]

Emit(pc, event, step_index) ==
    stream' = [stream EXCEPT !.pc = pc, !.ntok = 0,
                             !.events = Append(@, Event(event, step_index))]

otherVars == <<fbVars, parseVars, genVars, toolVars>>

\* `yield StreamEvent(event=STEP_START, step_index=0)`
StreamBegin ==
    /\ stream.pc = "begin"
    /\ Emit("extraction", "step_start", 0)
    /\ UNCHANGED otherVars

\* The step index of the LLM stream the generator is consuming.
LLMStep == IF stream.pc = "extraction" THEN 0 ELSE 2

\* `async for token, result in ...: if token: yield StreamEvent(THINKING)`:
\* a token of the model's stream, relayed unless it is empty.
StreamToken ==
    /\ stream.pc \in {"extraction", "evaluation"}
    /\ stream.ntok < MaxTok
    /\ \E empty \in BOOLEAN :
          stream' = [stream EXCEPT !.ntok = @ + 1,
                                   !.events = IF empty THEN @
                                              ELSE Append(@, Event("thinking", LLMStep))]
    /\ UNCHANGED otherVars

\* The LLM call of the stream raises (a client used without the fallback
\* wrapper, when llm_fallback_enabled is off).
StreamLLMRaises ==
    /\ stream.pc \in {"extraction", "evaluation"}
    /\ Raise("RuntimeError")
    /\ UNCHANGED otherVars

\* The answers the model's stream may add up to.
StreamAnswers(bodies) == {[fence |-> TRUE, prose |-> FALSE, body |-> b] : b \in bodies}

StreamExtractionAnswers ==
    StreamAnswers({JInvalid, JNull, JList(<<>>),
        JObj([waypoints |-> JList(<<JStr("hakone")>>), facility_types |-> JAbsent,
              amenities |-> JAbsent, atmosphere |-> JAbsent, activities |-> JAbsent,
              time_constraints |-> JAbsent]),
        JObj([waypoints |-> JAbsent, facility_types |-> JList(<<JStr("onsen")>>),
              amenities |-> JAbsent, atmosphere |-> JAbsent, activities |-> JAbsent,
              time_constraints |-> JAbsent])})

StreamEvaluationAnswers ==
    StreamAnswers({JInvalid, JNull, JList(<<>>),
        JObj([ranking |-> JList(<<JStr("B"), JStr("A")>>), recommended_id |-> JStr("B"),
              explanation |-> JStr("because"), confidence |-> JNum(85)])})

\* The extraction stream ends: extract_destination_stream parses what has
\* accumulated (an exception of the parser is raised into the async for),
\* then `yield StreamEvent(STEP_COMPLETE, step_index=0)`.
StreamExtractionEnds ==
    /\ stream.pc = "extraction"
    /\ \E answer \in StreamExtractionAnswers :
          LET r == ParseExtractionResponse(answer, "q")
          IN  IF r.exc # "none" THEN Raise(r.exc)
              ELSE Emit("extracted", "step_complete", 0)
    /\ UNCHANGED otherVars

\* `yield StreamEvent(STEP_START, step_index=1)`
StreamGenerationBegins ==
    /\ stream.pc = "extracted"
    /\ Emit("generation", "step_start", 1)
    /\ UNCHANGED otherVars

\* generate_candidates returns a list (possibly empty) or raises, then
\* `yield StreamEvent(STEP_COMPLETE, step_index=1)`.
StreamGenerationEnds ==
    /\ stream.pc = "generation"
    /\ \/ \E n \in 0..MaxCand :
             stream' = [stream EXCEPT !.pc = "generated", !.ncand = n,
                           !.events = Append(@, Event("step_complete", 1))]
       \/ \E exc \in {"ValueError", "AttributeError"} : Raise(exc)
    /\ UNCHANGED otherVars

\* `yield StreamEvent(STEP_START, step_index=2)`
StreamEvaluationBegins ==
    /\ stream.pc = "generated"
    /\ Emit("context", "step_start", 2)
    /\ UNCHANGED otherVars

\* route_candidates: list[RouteFeatures] = Field(..., min_length=1, max_length=10)
MinCandidates == 1
MaxCandidates == 10

\* RoutingContext(...): ValidationError unless there are 1 to 10 candidates;
\* then the evaluation stream is opened.
StreamBuildContext ==
    /\ stream.pc = "context"
    /\ IF stream.ncand < MinCandidates \/ stream.ncand > MaxCandidates
       THEN Raise("ValueError")
       ELSE stream' = [stream EXCEPT !.pc = "evaluation", !.ntok = 0]
    /\ UNCHANGED otherVars

\* The evaluation stream ends: evaluate_routes_stream parses what has
\* accumulated, then `yield StreamEvent(STEP_COMPLETE, step_index=2)`.
StreamEvaluationEnds ==
    /\ stream.pc = "evaluation"
    /\ \E answer \in StreamEvaluationAnswers :
          LET r == ParseRouteResponse(answer, SubSeq(ROUTE_IDS, 1, stream.ncand))
          IN  IF r.exc # "none" THEN Raise(r.exc)
              ELSE Emit("evaluated", "step_complete", 2)
    /\ UNCHANGED otherVars

\* The routes are converted (a conversion may raise), then
\* `yield StreamEvent(ROUTES, ...)`.
StreamRoutes ==
    /\ stream.pc = "evaluated"
    /\ \/ Emit("routes_sent", "routes", -1)
       \/ \E exc \in {"ValueError", "AttributeError"} : Raise(exc)
    /\ UNCHANGED otherVars

\* `yield StreamEvent(DONE)`, and the generator ends.
StreamDone ==
    /\ stream.pc = "routes_sent"
    /\ Emit("end", "done", -1)
    /\ UNCHANGED otherVars

\* The endpoint's generate(): the generator has ended (after done, after
\* error, or by an exception), and `finally: await service.close()` runs.
StreamClose ==
    /\ stream.pc = "end"
    /\ stream' = [stream EXCEPT !.pc = "closed"]
    /\ UNCHANGED otherVars

StreamInit ==
    stream = [pc |-> "begin", events |-> <<>>, ntok |-> 0, ncand |-> 0,
              propagated |-> FALSE]

StreamNext ==
    \/ StreamBegin
    \/ StreamToken
    \/ StreamLLMRaises
    \/ StreamExtractionEnds
    \/ StreamGenerationBegins
    \/ StreamGenerationEnds
    \/ StreamEvaluationBegins
    \/ StreamBuildContext
    \/ StreamEvaluationEnds
    \/ StreamRoutes
    \/ StreamDone
    \/ StreamClose

(***************************************************************************)
(* Strings of the location data                                            *)
(*                                                                         *)
(* Names, tags and search terms are sequences of characters, so that       *)
(* `in` (substring) and lower() are computed. A Latin letter is written as *)
(* itself; a kana or kanji character is written as a romanised token of    *)
(* two or more letters, the same token wherever the same character stands. *)
(***************************************************************************)
LowerGlyph(g) ==
    CASE g = "A" -> "a" [] g = "E" -> "e" [] g = "P" -> "p"
      [] g = "R" -> "r" [] g = "S" -> "s" [] g = "V" -> "v"
      [] OTHER -> g

\* str.lower()
Lower(s) == [i \in 1..Len(s) |-> LowerGlyph(s[i])]

\* `a in b` on two strings
In(a, b) == \E i \in 0..(Len(b) - Len(a)) : SubSeq(b, i + 1, i + Len(a)) = a

RECURSIVE FoldLeft(_, _, _)
FoldLeft(Op(_, _), acc, s) ==
    IF s = <<>> THEN acc ELSE FoldLeft(Op, Op(acc, Head(s)), Tail(s))

\* sorted(s, key=Key, reverse=True): stable, equal keys keep their order
SortedDesc(Key(_), s) ==
    FoldLeft(LAMBDA acc, x :
                LET n == Cardinality({i \in DOMAIN acc : Key(acc[i]) >= Key(x)})
                IN  SubSeq(acc, 1, n) \o <<x>> \o SubSeq(acc, n + 1, Len(acc)),
             <<>>, s)

\* sorted(s, key=Key): stable
SortedAsc(Key(_), s) ==
    FoldLeft(LAMBDA acc, x :
                LET n == Cardinality({i \in DOMAIN acc : Key(acc[i]) <= Key(x)})
                IN  SubSeq(acc, 1, n) \o <<x>> \o SubSeq(acc, n + 1, Len(acc)),
             <<>>, s)

\* s[:n]
Take(s, n) == SubSeq(s, 1, IF n < Len(s) THEN n ELSE Len(s))

\* The words of the source and the names of the data, character by character.
Word ==
    [Onsen |-> <<"on", "sen">>,                                \* hot spring
     Michinoeki |-> <<"michi", "no", "eki">>,                  \* roadside station
     CampJo |-> <<"ki", "ya", "nn", "pu", "jou">>,             \* camp site
     RvPark |-> <<"r", "v", "pa", "--", "ku">>,                \* "rv" + park, in kana
     ServiceArea |-> <<"sa", "--", "bi", "su", "ee", "ri", "aa">>,
     Jinja |-> <<"jin", "ja">>,                                \* shrine
     Tera |-> <<"tera">>,                                      \* temple
     Kouen |-> <<"kou", "en">>,                                \* park
     Mizuumi |-> <<"ko">>,                                     \* lake
     Yama |-> <<"yama">>,                                      \* mountain
     Umi |-> <<"umi">>,                                        \* sea
     Beach |-> <<"bi", "--", "chi">>,
     Juden |-> <<"juu", "den">>,                               \* charging
     EvJuden |-> <<"E", "V", "juu", "den">>,                   \* "EV" + charging
     Shizuka |-> <<"shizu", "ka">>,                            \* quiet
     Keshiki |-> <<"kei2", "shoku">>,                          \* scenery
     Nagame |-> <<"naga", "me">>,                              \* view
     Shizen |-> <<"shi", "zen">>,                              \* nature
     Keiyu |-> <<"kei", "yu", ":", " ">>,                      \* "via: "
     Hakone |-> <<"hako", "ne">>,
     HakoneYumoto |-> <<"hako", "ne", "yu2", "moto">>,
     Kawaguchiko |-> <<"kawa", "kuchi", "ko">>,
     Atami |-> <<"netsu", "umi">>,
     EbinaSA |-> <<"umi", "rou", "na", "S", "A">>,
     Fujisan |-> <<"fu", "shi2", "yama">>]

(***************************************************************************)
(* The location index (LocationCache)                                      *)
(*                                                                         *)
(* A dict is the sequence of its items in insertion order. scenery_score   *)
(* and search scores are held in tenths.                                   *)
(***************************************************************************)
LocationTypes ==
    {"city", "town", "station", "onsen", "michinoeki", "camp", "rv_park", "sa_pa",
     "scenic", "shrine_temple", "park", "lake", "mountain", "beach", "other"}

\* Location(**loc_data): the type is a LocationType, 1.0 <= scenery_score <= 5.0
ValidLocation(e) == e.type \in LocationTypes /\ e.scenery_score >= 10 /\ e.scenery_score <= 50

EmptyCache ==
    [locations |-> <<>>, name_index |-> <<>>, type_index |-> <<>>, tag_index |-> <<>>,
     prefecture_index |-> <<>>, loaded |-> FALSE]

\* index.get(key, [])
IndexGet(index, key) ==
    IF \E i \in DOMAIN index : index[i].key = key
    THEN index[CHOOSE i \in DOMAIN index : index[i].key = key].ids
    ELSE <<>>

\* `if key not in index: index[key] = []` then `index[key].append(id)`
IndexAppend(index, key, id) ==
    IF \E i \in DOMAIN index : index[i].key = key
    THEN [i \in DOMAIN index |->
            IF index[i].key = key THEN [index[i] EXCEPT !.ids = Append(@, id)] ELSE index[i]]
    ELSE Append(index, [key |-> key, ids |-> <<id>>])

\* the loops over aliases, tags and facilities, each key lower-cased
IndexAppendLower(index, keys, id) ==
    FoldLeft(LAMBDA acc, k : IndexAppend(acc, Lower(k), id), index, keys)

\* self._locations[location.id] = location
LocationsPut(locations, location) ==
    IF \E i \in DOMAIN locations : locations[i].id = location.id
    THEN [i \in DOMAIN locations |->
            IF locations[i].id = location.id THEN location ELSE locations[i]]
    ELSE Append(locations, location)

\* self._locations.get(id): <<>> is None
LocationsGet(locations, id) ==
    IF \E i \in DOMAIN locations : locations[i].id = id
    THEN <<locations[CHOOSE i \in DOMAIN locations : locations[i].id = id]>>
    ELSE <<>>

AddToIndex(c, location) ==
    [c EXCEPT
        !.locations = LocationsPut(@, location),
        !.name_index = IndexAppendLower(IndexAppend(@, Lower(location.name), location.id),
                                        location.aliases, location.id),
        !.type_index = IndexAppend(@, location.type, location.id),
        !.tag_index = IndexAppendLower(IndexAppendLower(@, location.tags, location.id),
                                       location.facilities, location.id),
        !.prefecture_index = IndexAppend(@, location.prefecture, location.id)]

\* The loop of load() over the entries: an entry that fails validation
\* raises out of the loop, after the entries before it were indexed.
RECURSIVE LoadEntries(_, _)
LoadEntries(c, entries) ==
    IF entries = <<>> THEN [cache |-> [c EXCEPT !.loaded = TRUE], ok |-> TRUE]
    ELSE IF ~ValidLocation(Head(entries)) THEN [cache |-> c, ok |-> FALSE]
    ELSE LoadEntries(AddToIndex(c, Head(entries)), Tail(entries))

\* Mutant: load() without `if self._loaded: return True`.
LoadAgain(c, f) ==
    IF f.state # "ok" THEN [cache |-> c, ok |-> FALSE]
    ELSE LoadEntries(c, f.entries)

\* load(): the cache after the call and the value returned
Load(c, f) ==
    IF c.loaded THEN [cache |-> c, ok |-> TRUE]
    ELSE IF f.state # "ok" THEN [cache |-> c, ok |-> FALSE]
    ELSE LoadEntries(c, f.entries)

\* _ensure_loaded(): the cache after the call
EnsureLoaded(c, f) == IF c.loaded THEN c ELSE Load(c, f).cache

Reason(rule, term) == [rule |-> rule, term |-> term]

\* Mutant: add_score that replaces the score instead of adding to it.
AddScoreOverwrite(scores, loc_id, score, reason) ==
    IF \E i \in DOMAIN scores : scores[i].id = loc_id
    THEN [i \in DOMAIN scores |->
            IF scores[i].id = loc_id
            THEN [scores[i] EXCEPT !.score = score, !.reasons = Append(@, reason)]
            ELSE scores[i]]
    ELSE Append(scores, [id |-> loc_id, score |-> score, reasons |-> <<reason>>])

\* add_score of search
AddScore(scores, loc_id, score, reason) ==
    IF \E i \in DOMAIN scores : scores[i].id = loc_id
    THEN [i \in DOMAIN scores |->
            IF scores[i].id = loc_id
            THEN [scores[i] EXCEPT !.score = @ + score, !.reasons = Append(@, reason)]
            ELSE scores[i]]
    ELSE Append(scores, [id |-> loc_id, score |-> score, reasons |-> <<reason>>])

AddScoreAll(scores, ids, score, reason) ==
    FoldLeft(LAMBDA acc, id : AddScore(acc, id, score, reason), scores, ids)

\* search: one term of place_names
PlaceNameRule(c, scores, place) ==
    LET place_lower == Lower(place)
        exact == IndexGet(c.name_index, place_lower)
    IN  FoldLeft(LAMBDA acc, item :
                    IF In(place_lower, item.key) \/ In(item.key, place_lower)
                    THEN FoldLeft(LAMBDA a, id :
                                     IF id \in Range(exact) THEN a
                                     ELSE AddScore(a, id, 80, Reason("name_partial", place)),
                                  acc, item.ids)
                    ELSE acc,
                 AddScoreAll(scores, exact, 150, Reason("name_exact", place)),
                 c.name_index)

\* type_mapping of search
TypeMapping ==
    << <<Word.Onsen, "onsen">>, <<Word.Michinoeki, "michinoeki">>, <<Word.CampJo, "camp">>,
       <<Word.RvPark, "rv_park">>, <<Word.ServiceArea, "sa_pa">>, <<(<<"s", "a">>), "sa_pa">>,
       <<(<<"p", "a">>), "sa_pa">>, <<Word.Jinja, "shrine_temple">>, <<Word.Tera, "shrine_temple">>,
       <<Word.Kouen, "park">>, <<Word.Mizuumi, "lake">>, <<Word.Yama, "mountain">>, <<Word.Umi, "beach">>,
       <<Word.Beach, "beach">> >>

\* the tag loop of the facility and amenity rules
TagRule(c, scores, term, score, reason) ==
    LET term_lower == Lower(term)
    IN  FoldLeft(LAMBDA acc, item :
                    IF In(term_lower, item.key) \/ In(item.key, term_lower)
                    THEN AddScoreAll(acc, item.ids, score, reason)
                    ELSE acc,
                 scores, c.tag_index)

\* search: one term of facility_types
FacilityTypeRule(c, scores, facility_type) ==
    LET ft_lower == Lower(facility_type)
        typed == FoldLeft(LAMBDA acc, m :
                             IF In(m[1], ft_lower) \/ In(ft_lower, m[1])
                             THEN AddScoreAll(acc, IndexGet(c.type_index, m[2]), 100,
                                              Reason("facility_type", facility_type))
                             ELSE acc,
                          scores, TypeMapping)
    IN  TagRule(c, typed, facility_type, 50, Reason("tag", facility_type))

\* search: one term of amenities
AmenityRule(c, scores, amenity) ==
    LET am_lower == Lower(amenity)
        tagged == TagRule(c, scores, amenity, 30, Reason("amenity", amenity))
    IN  IF In(Word.Juden, am_lower) \/ In(<<"e", "v">>, am_lower)
        THEN FoldLeft(LAMBDA acc, loc :
                         IF loc.ev_charging
                         THEN AddScore(acc, loc.id, 50, Reason("ev_charging", <<>>))
                         ELSE acc,
                      tagged, c.locations)
        ELSE tagged

\* search: one term of atmosphere
AtmosphereRule(c, scores, atm) ==
    LET atm_lower == Lower(atm)
        quiet(acc, loc) ==
            IF In(Word.Shizuka, atm_lower) /\ loc.noise_level = "low"
            THEN AddScore(acc, loc.id, 40, Reason("quiet", <<>>)) ELSE acc
        scenic(acc, loc) ==
            IF (In(Word.Keshiki, atm_lower) \/ In(Word.Nagame, atm_lower)) /\ loc.scenery_score >= 40
            THEN AddScore(acc, loc.id, 30, Reason("scenery", <<>>)) ELSE acc
        nature(acc, loc) ==
            IF In(Word.Shizen, atm_lower)
               /\ loc.type \in {"camp", "lake", "mountain", "scenic", "park"}
            THEN AddScore(acc, loc.id, 30, Reason("nature", <<>>)) ELSE acc
    IN  FoldLeft(LAMBDA acc, loc : nature(scenic(quiet(acc, loc), loc), loc),
                 scores, c.locations)

\* Mutant: search without the prefecture filter.
SearchEveryPrefecture(c, place_names, facility_types, amenities, atmosphere, prefecture, limit) ==
    LET s1 == FoldLeft(LAMBDA acc, t : PlaceNameRule(c, acc, t), <<>>, place_names)
        s2 == FoldLeft(LAMBDA acc, t : FacilityTypeRule(c, acc, t), s1, facility_types)
        s3 == FoldLeft(LAMBDA acc, t : AmenityRule(c, acc, t), s2, amenities)
        s4 == FoldLeft(LAMBDA acc, t : AtmosphereRule(c, acc, t), s3, atmosphere)
        top == Take(SortedDesc(LAMBDA e : e.score, s4), limit)
    IN  FoldLeft(LAMBDA acc, e :
                    LET loc == LocationsGet(c.locations, e.id)
                    IN  IF loc = <<>> THEN acc
                        ELSE Append(acc, [location |-> loc[1], score |-> e.score,
                                          match_reasons |-> e.reasons]),
                 <<>>, top)

\* search(...) on a loaded cache; prefecture "" is None
Search(c, place_names, facility_types, amenities, atmosphere, prefecture, limit) ==
    LET s1 == FoldLeft(LAMBDA acc, t : PlaceNameRule(c, acc, t), <<>>, place_names)
        s2 == FoldLeft(LAMBDA acc, t : FacilityTypeRule(c, acc, t), s1, facility_types)
        s3 == FoldLeft(LAMBDA acc, t : AmenityRule(c, acc, t), s2, amenities)
        s4 == FoldLeft(LAMBDA acc, t : AtmosphereRule(c, acc, t), s3, atmosphere)
        s5 == IF prefecture # ""
              THEN SelectSeq(s4, LAMBDA e :
                                    e.id \in Range(IndexGet(c.prefecture_index, prefecture)))
              ELSE s4
        top == Take(SortedDesc(LAMBDA e : e.score, s5), limit)
    IN  FoldLeft(LAMBDA acc, e :
                    LET loc == LocationsGet(c.locations, e.id)
                    IN  IF loc = <<>> THEN acc
                        ELSE Append(acc, [location |-> loc[1], score |-> e.score,
                                          match_reasons |-> e.reasons]),
                 <<>>, top)

\* get_by_name(name) on a loaded cache: <<>> is None
GetByName(c, name) ==
    LET ids == IndexGet(c.name_index, Lower(name))
    IN  IF ids # <<>> THEN LocationsGet(c.locations, ids[1]) ELSE <<>>

(***************************************************************************)
(* The candidate generator (CachedRouteGenerator)                          *)
(*                                                                         *)
(* Every method of the cache starts with _ensure_loaded(), which loads     *)
(* again while no load has succeeded: the operators hand the cache on and  *)
(* return it with their value. A candidate keeps the fields of             *)
(* RouteFeatures that come from the location; the distance, the duration,  *)
(* the toll, the eta and the polyline are left out.                        *)
(***************************************************************************)
\* DestinationExtraction.place_names
PlaceNames(extraction) == [i \in 1..Len(extraction.waypoints) |-> extraction.waypoints[i].name]

\* location.facilities.copy() with the EV charging entry
NearbyFacilities(location) ==
    IF location.ev_charging /\ Word.EvJuden \notin Range(location.facilities)
    THEN Append(location.facilities, Word.EvJuden)
    ELSE location.facilities

CreateRouteFeature(route_id, location) ==
    [id |-> route_id,
     destination_name |-> location.name,
     charging_available |-> location.ev_charging,
     noise_level |-> location.noise_level,
     scenery_score |-> location.scenery_score,
     nearby_facilities |-> NearbyFacilities(location)]

\* sorted([loc for loc in all_locations if loc.id not in existing_ids],
\*        key=lambda x: x.scenery_score, reverse=True)
PaddingOrder(locations, existing_ids) ==
    SortedDesc(LAMBDA x : x.scenery_score,
               SelectSeq(locations, LAMBDA loc : loc.id \notin existing_ids))

\* The SearchResults appended when the search found fewer than count.
Padding(c, search_results, count) ==
    LET sorted_locations ==
            PaddingOrder(c.locations,
                         {search_results[i].location.id : i \in DOMAIN search_results})
    IN  [i \in 1..Len(Take(sorted_locations, count - Len(search_results))) |->
            [location |-> sorted_locations[i], score |-> sorted_locations[i].scenery_score,
             match_reasons |-> <<Reason("padding", <<>>)>>]]

\* self.ROUTE_IDS[i] if i < len(self.ROUTE_IDS) else f"R{i}", i counted from 1
RouteId(i) == IF i <= Len(ROUTE_IDS) THEN ROUTE_IDS[i] ELSE "R" \o ToString(i - 1)

\* selected = search_results[:count], converted to RouteFeatures
SelectedCandidates(c, search_results, count) ==
    [cache |-> c,
     value |-> [i \in 1..Len(Take(search_results, count)) |->
                   CreateRouteFeature(RouteId(i), search_results[i].location)]]

\* _generate_destination_candidates after the search
PadAndSelect(c, f, search_results, count) ==
    IF Len(search_results) < count
    THEN LET all == EnsureLoaded(c, f)        \* self.cache.get_all()
         IN  SelectedCandidates(all, search_results \o Padding(all, search_results, count),
                                count)
    ELSE SelectedCandidates(c, search_results, count)

\* _generate_destination_candidates on a cache that _ensure_loaded has seen
SearchPadAndSelect(c, f, extraction, count) ==
    PadAndSelect(c, f,
                 Search(c, PlaceNames(extraction), extraction.facility_types,
                        extraction.amenities, extraction.atmosphere, "", count * 2),
                 count)

\* _generate_destination_candidates
GenerateDestinationCandidates(c, f, extraction, count) ==
    SearchPadAndSelect(EnsureLoaded(c, f), f, extraction, count)

\* the substring loop of _find_location_by_name over get_all()
FirstPartialMatch(c, name) ==
    [cache |-> c,
     value |-> Take(SelectSeq(c.locations,
                              LAMBDA loc : In(name, loc.name) \/ In(loc.name, name)), 1)]

\* _find_location_by_name after get_by_name returned location
FoundOrPartial(c, f, name, location) ==
    IF location # <<>> THEN [cache |-> c, value |-> location]
    ELSE FirstPartialMatch(EnsureLoaded(c, f), name)

\* _find_location_by_name on a cache that _ensure_loaded has seen
GetOrPartial(c, f, name) == FoundOrPartial(c, f, name, GetByName(c, name))

\* _find_location_by_name: <<>> is None
FindLocationByName(c, f, name) == GetOrPartial(EnsureLoaded(c, f), f, name)

\* next((w for w in waypoints if w.type == FINAL), waypoints[-1])
FinalWaypoint(waypoints) ==
    IF \E i \in DOMAIN waypoints : waypoints[i].type = "final"
    THEN waypoints[MinOf({i \in DOMAIN waypoints : waypoints[i].type = "final"})]
    ELSE waypoints[Len(waypoints)]

\* ', '.join(names)
RECURSIVE Join(_)
Join(names) ==
    IF names = <<>> THEN <<>>
    ELSE IF Len(names) = 1 THEN names[1]
    ELSE names[1] \o <<",", " ">> \o Join(Tail(names))

\* `if search_results: final_location = search_results[0].location`
FirstLocation(c, search_results) ==
    [cache |-> c,
     value |-> IF search_results # <<>> THEN <<search_results[1].location>> ELSE <<>>]

\* the search of last resort, with the name as place name and facility type
SearchLastResort(c, name) ==
    FirstLocation(c, Search(c, <<name>>, <<name>>, <<>>, <<>>, "", 1))

\* `if not final_location:` after _find_location_by_name
FoundOrSearch(found, f, name) ==
    IF found.value # <<>> THEN found
    ELSE SearchLastResort(EnsureLoaded(found.cache, f), name)

\* The final location of _generate_waypoint_routes: by name, else the first
\* result of the search of last resort.
ResolveFinalNamed(c, f, name) == FoundOrSearch(FindLocationByName(c, f, name), f, name)

ResolveFinal(c, f, waypoints) == ResolveFinalNamed(c, f, FinalWaypoint(waypoints).name)

\* [w.name for w in waypoints if w.type != WaypointType.FINAL]
WaypointNames(waypoints) ==
    LET others == SelectSeq(waypoints, LAMBDA w : w.type # "final")
    IN  [i \in 1..Len(others) |-> others[i].name]

\* `if waypoint_names: nearby_facilities.insert(0, "via: " + ', '.join(waypoint_names))`
WithVia(nearby_facilities, waypoint_names) ==
    IF waypoint_names # <<>>
    THEN <<Word.Keiyu \o Join(waypoint_names)>> \o nearby_facilities
    ELSE nearby_facilities

\* the RouteFeatures of the waypoint route
WaypointRoute(final_location, waypoints) ==
    [CreateRouteFeature("A", final_location) EXCEPT
        !.nearby_facilities = WithVia(@, WaypointNames(waypoints))]

\* the loop over the waypoints looks each of them up in the cache
LookUpWaypoints(c, f, waypoints) ==
    FoldLeft(LAMBDA acc, wp : FindLocationByName(acc, f, wp.name).cache, c, waypoints)

\* _generate_waypoint_routes after the final location was looked for
RouteTo(final, f, extraction, waypoints) ==
    IF final.value = <<>>
    THEN GenerateDestinationCandidates(final.cache, f, extraction, 4)
    ELSE [cache |-> LookUpWaypoints(final.cache, f, waypoints),
          value |-> <<WaypointRoute(final.value[1], waypoints)>>]

\* _generate_waypoint_routes on the sorted waypoints
RouteOver(c, f, extraction, waypoints) ==
    IF waypoints = <<>> THEN [cache |-> c, value |-> <<>>]
    ELSE RouteTo(ResolveFinal(c, f, waypoints), f, extraction, waypoints)

\* sorted(extraction.waypoints, key=lambda w: w.order)
VisitingOrder(waypoints) == SortedAsc(LAMBDA w : w.order, waypoints)

\* _generate_waypoint_routes
GenerateWaypointRoutes(c, f, extraction) ==
    RouteOver(c, f, extraction, VisitingOrder(extraction.waypoints))

\* generate_candidates: the count argument is not used
GenerateCandidatesOf(c, f, extraction, count) ==
    IF extraction.waypoints # <<>>
    THEN GenerateWaypointRoutes(c, f, extraction)
    ELSE GenerateDestinationCandidates(c, f, extraction, 1)

(***************************************************************************)
(* Datasets, extractions and the steps of the generator                    *)
(***************************************************************************)
\* Location(**loc_data): the fields the index, the generator and the searches
\* read. lat and lng are in tenths of a degree; description is None (<<>>),
\* specialties is empty and overnight_parking is False unless the entry says
\* otherwise (the defaults of the Location model).
Loc(id, name, aliases, type, prefecture, tags, facilities, ev, noise, scenery) ==
    [id |-> id, name |-> name, aliases |-> aliases, type |-> type,
     prefecture |-> prefecture, tags |-> tags, facilities |-> facilities,
     ev_charging |-> ev, noise_level |-> noise, scenery_score |-> scenery,
     lat |-> 0, lng |-> 0, overnight_parking |-> FALSE, description |-> <<>>,
     specialties |-> <<>>]

\* The entries a dataset file is made of. "hakone_yumoto" shares the alias
\* of "hakone"; "bad" is an entry Location(**loc_data) rejects: its
\* scenery_score is above 5.0.
LocationPool ==
    { [Loc("hakone", Word.Hakone, <<Word.Hakone \o Word.Onsen>>, "onsen", "kanagawa",
           <<Word.Onsen>>, <<Word.Onsen>>, TRUE, "low", 45)
          EXCEPT !.lat = 352, !.lng = 1390, !.overnight_parking = TRUE],
      [Loc("hakone_yumoto", Word.HakoneYumoto, <<Word.Hakone \o Word.Onsen>>, "station",
           "kanagawa", <<>>, <<>>, FALSE, "medium", 30)
          EXCEPT !.lat = 352, !.lng = 1391],
      [Loc("kawaguchiko", Word.Kawaguchiko, <<>>, "lake", "yamanashi",
           <<Word.Mizuumi>>, <<>>, FALSE, "low", 50)
          EXCEPT !.lat = 355, !.lng = 1388, !.overnight_parking = TRUE,
                 !.description = Word.Fujisan \o Word.Keshiki],
      [Loc("ebina_sa", Word.EbinaSA, <<>>, "sa_pa", "kanagawa",
           <<>>, <<Word.EvJuden>>, TRUE, "high", 20)
          EXCEPT !.lat = 354, !.lng = 1394],
      [Loc("fujisan", Word.Fujisan, <<>>, "mountain", "yamanashi",
           <<Word.Yama>>, <<>>, FALSE, "low", 50)
          EXCEPT !.lat = 354, !.lng = 1387],
      Loc("bad", Word.Atami, <<>>, "onsen", "shizuoka",
          <<>>, <<>>, FALSE, "low", 60) }

\* the entries of a dataset file: distinct ids
EntryLists ==
    {s \in SeqsUpTo(LocationPool, MaxLoc) : \A i, j \in DOMAIN s : s[i] = s[j] => i = j}

Files ==
    {[state |-> "missing", entries |-> <<>>], [state |-> "malformed", entries |-> <<>>]}
    \cup {[state |-> "ok", entries |-> s] : s \in EntryLists}

Wp(name, type, order) == [name |-> name, type |-> type, order |-> order]

WaypointLists ==
    { <<Wp(Word.Hakone, "required", 0), Wp(Word.Kawaguchiko, "final", 1)>>,
      <<Wp(Word.Hakone, "required", 0), Wp(Word.Kawaguchiko, "required", 1)>>,
      <<Wp(Word.Kawaguchiko, "final", 1), Wp(Word.Hakone, "optional", 0)>>,
      <<Wp(Word.Hakone, "final", 0), Wp(Word.Kawaguchiko, "final", 1)>>,
      <<Wp(Word.Atami, "required", 0), Wp(Word.Kawaguchiko, "final", 1)>>,
      <<Wp(Word.Kawaguchiko, "final", 0)>>,
      <<Wp(Word.Hakone, "required", 0)>>,
      <<Wp(Word.Atami, "final", 0)>>,
      <<Wp(Word.Mizuumi, "final", 0)>> }

Extraction(waypoints, facility_types, amenities, atmosphere) ==
    [waypoints |-> waypoints, facility_types |-> facility_types, amenities |-> amenities,
     atmosphere |-> atmosphere]

Extractions ==
    {Extraction(<<>>, ft, am, at) :
        ft \in {<<>>, <<Word.Onsen>>, <<Word.Mizuumi>>}, am \in {<<>>, <<Word.EvJuden>>},
        at \in {<<>>, <<Word.Shizuka>>}}
    \cup {Extraction(w, <<>>, <<>>, <<>>) : w \in WaypointLists}

NoGen == [op |-> "none", extraction |-> Extraction(<<>>, <<>>, <<>>, <<>>), count |-> 0,
          arg |-> <<>>, out |-> <<>>, loads |-> 0, ok |-> FALSE]

\* get_location_cache() / load(): the dataset file is read into the cache.
\* loads counts the explicit load() calls and the runs of load() an accessor
\* caused; ok is what the last explicit load() returned.
LoadCache ==
    /\ gen.op # "generate"
    /\ gen.loads < MaxLoads
    /\ \E r \in {Load(cache, file)} :
          /\ cache' = r.cache
          /\ gen' = [gen EXCEPT !.op = "load", !.arg = <<>>, !.out = <<>>,
                                !.loads = @ + 1, !.ok = r.ok]
    /\ UNCHANGED <<file, fbVars, parseVars, stream, toolVars>>

\* generate_candidates(origin, extraction, count)
GenerateCandidates ==
    /\ gen.op = "none"
    /\ \E extraction \in Extractions, count \in 1..MaxCount :
          \E r \in {GenerateCandidatesOf(cache, file, extraction, count)} :
              /\ cache' = r.cache
              /\ gen' = [gen EXCEPT !.op = "generate", !.extraction = extraction,
                                    !.count = count, !.out = r.value]
    /\ UNCHANGED <<file, fbVars, parseVars, stream, toolVars>>

\* The names and ids the accessors are called with: every name and alias of
\* the dataset, a part of a name, and a name no entry has.
LookupNames ==
    UNION {{e.name} \cup Range(e.aliases) : e \in LocationPool} \cup {Word.Onsen, Word.Umi}

LookupIds == {e.id : e \in LocationPool}

\* An accessor of the cache: _ensure_loaded() first, which runs load() while
\* the cache is not loaded, then the read.
Access(op, arg, c, value) ==
    /\ gen.op # "generate"
    /\ cache.loaded \/ gen.loads < MaxLoads
    /\ cache' = c
    /\ gen' = [gen EXCEPT !.op = op, !.arg = arg, !.out = value,
                          !.loads = IF cache.loaded THEN @ ELSE @ + 1]
    /\ UNCHANGED <<file, fbVars, parseVars, stream, toolVars>>

\* get_by_id(location_id)
GetById ==
    \E id \in LookupIds, c \in {EnsureLoaded(cache, file)} :
        Access("get_by_id", id, c, LocationsGet(c.locations, id))

\* get_by_name(name)
GetByNameCall ==
    \E name \in LookupNames, c \in {EnsureLoaded(cache, file)} :
        Access("get_by_name", name, c, GetByName(c, name))

\* search(place_names=[name]): no other criterion, the default limit
DefaultLimit == 10

SearchByPlaceName ==
    \E name \in LookupNames, c \in {EnsureLoaded(cache, file)} :
        Access("search", name, c, Search(c, <<name>>, <<>>, <<>>, <<>>, "", DefaultLimit))

\* get_all()
GetAll ==
    \E c \in {EnsureLoaded(cache, file)} : Access("get_all", <<>>, c, c.locations)

\* count
Count ==
    \E c \in {EnsureLoaded(cache, file)} : Access("count", <<>>, c, <<Len(c.locations)>>)

IndexNext == LoadCache \/ GetById \/ GetByNameCall \/ SearchByPlaceName \/ GetAll \/ Count

GenInit == cache = EmptyCache /\ file \in Files /\ gen = NoGen

GenIdle == cache = EmptyCache /\ file = [state |-> "missing", entries |-> <<>>] /\ gen = NoGen

GenNext == LoadCache \/ GenerateCandidates

\* The filters search is called with: the four lists of terms.
SearchQuery(place_names, facility_types, amenities, atmosphere) ==
    [place_names |-> place_names, facility_types |-> facility_types,
     amenities |-> amenities, atmosphere |-> atmosphere]

SearchQueries ==
    { SearchQuery(<<>>, <<>>, <<>>, <<>>),
      SearchQuery(<<Word.Hakone>>, <<>>, <<>>, <<>>),
      SearchQuery(<<Word.Hakone, Word.Hakone>>, <<>>, <<>>, <<Word.Shizuka>>),
      SearchQuery(<<Word.Hakone \o Word.Onsen>>, <<Word.Onsen>>, <<>>, <<>>),
      SearchQuery(<<>>, <<Word.Onsen>>, <<Word.EvJuden>>, <<Word.Shizuka>>),
      SearchQuery(<<>>, <<Word.Mizuumi>>, <<>>, <<Word.Shizen, Word.Keshiki>>),
      SearchQuery(<<Word.Kawaguchiko>>, <<Word.Yama>>, <<Word.Juden>>,
                  <<Word.Shizuka \o Word.Nagame>>) }

\* prefecture: None (""), a prefecture of the dataset, one no entry has
SearchPrefectures == {"", "kanagawa", "yamanashi", "tokyo"}

\* limit: nothing, the limit=1 and limit=count * 2 of the generator, the default
SearchLimits == {0, 1, 2, DefaultLimit}

\* search(place_names, facility_types, amenities, atmosphere, prefecture, limit)
SearchCall ==
    \E q \in SearchQueries, prefecture \in SearchPrefectures, limit \in SearchLimits,
       c \in {EnsureLoaded(cache, file)} :
        Access("search_all",
               [query |-> q, prefecture |-> prefecture, limit |-> limit], c,
               Search(c, q.place_names, q.facility_types, q.amenities, q.atmosphere,
                      prefecture, limit))

SearchNext == LoadCache \/ SearchCall

(***************************************************************************)
(* The polyline codec (CachedRouteGenerator._encode_polyline,              *)
(* _decode_polyline, _combine_polylines)                                   *)
(*                                                                         *)
(* A coordinate is a pair <<lat, lng>> of integers in units of 1e-5        *)
(* degree: the float k / 1e5 the decoder builds is the double nearest to   *)
(* the decimal, and round(c * 1e5) of that double is k again for every     *)
(* |k| <= 18000000. A polyline is the sequence of its characters' code     *)
(* points. An Optional is <<>> (None) or <<x>>.                            *)
(***************************************************************************)
MaxPts == 2     \* coordinates of a sequence that is encoded
MaxLegs == 2    \* polylines of a list that is stitched

\* `value = ~(value << 1) if value < 0 else value << 1`
SignFold(value) == IF value < 0 THEN -(2 * value) - 1 ELSE 2 * value

\* the while loop of encode_value: five bits per character, low bits first,
\* 0x20 set on every character but the last
RECURSIVE Chunks(_)
Chunks(value) ==
    IF value >= 32
    THEN <<(32 + (value % 32)) + 63>> \o Chunks(value \div 32)
    ELSE <<value + 63>>

EncodeValue(value) == Chunks(SignFold(value))

\* the for loop of _encode_polyline: the deltas to the previous point
RECURSIVE EncodeFrom(_, _, _)
EncodeFrom(coords, prev_lat, prev_lng) ==
    IF coords = <<>> THEN <<>>
    ELSE EncodeValue(Head(coords)[1] - prev_lat) \o EncodeValue(Head(coords)[2] - prev_lng)
            \o EncodeFrom(Tail(coords), Head(coords)[1], Head(coords)[2])

EncodePolyline(coords) == EncodeFrom(coords, 0, 0)

RECURSIVE Pow2(_)
Pow2(n) == IF n = 0 THEN 1 ELSE 2 * Pow2(n - 1)

\* The inner `while True` of _decode_polyline from position index: the value
\* read and the position after it. Reading past the end of the string is an
\* IndexError: index 0 is returned for it.
RECURSIVE DecodeValue(_, _, _, _)
DecodeValue(encoded, index, shift, result) ==
    IF index > Len(encoded) THEN [result |-> 0, index |-> 0]
    ELSE LET b == encoded[index] - 63
             r == result + (b % 32) * Pow2(shift)
         IN  IF b < 32 THEN [result |-> r, index |-> index + 1]
                       ELSE DecodeValue(encoded, index + 1, shift + 5, r)

\* Mutant: the sign bit is dropped, not undone.
SignUnfoldPositive(result) == result \div 2

\* `~(result >> 1) if result & 1 else result >> 1`
SignUnfold(result) ==
    IF result % 2 = 1 THEN -(result \div 2) - 1 ELSE result \div 2

\* The outer loop of _decode_polyline; <<"IndexError">> when the string ends
\* inside a value.
RECURSIVE DecodeFrom(_, _, _, _, _)
DecodeNext(encoded, lat, lng, coords, a, b) ==
    IF a.index = 0 \/ b.index = 0 THEN <<"IndexError">>
    ELSE DecodeFrom(encoded, b.index, lat + SignUnfold(a.result), lng + SignUnfold(b.result),
                    Append(coords, <<lat + SignUnfold(a.result), lng + SignUnfold(b.result)>>))

DecodeLng(encoded, lat, lng, coords, a) ==
    DecodeNext(encoded, lat, lng, coords, a,
               IF a.index = 0 THEN a ELSE DecodeValue(encoded, a.index, 0, 0))

DecodeFrom(encoded, index, lat, lng, coords) ==
    IF index > Len(encoded) THEN coords
    ELSE DecodeLng(encoded, lat, lng, coords, DecodeValue(encoded, index, 0, 0))

DecodePolyline(encoded) == DecodeFrom(encoded, 1, 0, 0, <<>>)

\* Mutant: the first point of every leg after the first is dropped.
DropJunctionAlways(all_coords, coords) ==
    IF all_coords # <<>> /\ coords # <<>> THEN Tail(coords) ELSE coords

\* `if all_coords and coords and all_coords[-1] == coords[0]: coords = coords[1:]`
DropJunction(all_coords, coords) ==
    IF all_coords # <<>> /\ coords # <<>> /\ Last(all_coords) = coords[1]
    THEN Tail(coords) ELSE coords

\* the for loop of _combine_polylines
RECURSIVE CombineFrom(_, _)
CombineFrom(all_coords, polylines) ==
    IF polylines = <<>> THEN all_coords
    ELSE CombineFrom(all_coords \o DropJunction(all_coords, DecodePolyline(Head(polylines))),
                     Tail(polylines))

EncodeOrNone(all_coords) ==
    IF all_coords = <<>> THEN <<>> ELSE <<EncodePolyline(all_coords)>>

\* _combine_polylines(polylines): <<>> is None
CombinePolylines(polylines) ==
    IF polylines = <<>> THEN <<>>
    ELSE IF Len(polylines) = 1 THEN <<polylines[1]>>
    ELSE EncodeOrNone(CombineFrom(<<>>, polylines))

\* Coordinates at the ends of the range, next to zero on both sides and on
\* both sides of a five-bit chunk boundary.
Points ==
    {<<lat, lng>> : lat \in {-9000000, -17, 0, 16, 9000000},
                    lng \in {-18000000, -16, 15, 13976710, 18000000}}

CoordLists == SeqsUpTo(Points, MaxPts)

\* The legs that are stitched: the polylines of the sequences of one or two
\* junction points, and the empty polyline.
Junctions == {<<3568123, 13976710>>, <<3523000, 13910000>>, <<-17, 15>>}

Legs == {EncodePolyline(c) : c \in SeqsUpTo(Junctions, 2)}

LegLists == SeqsUpTo(Legs, MaxLegs)

NoPoly == [op |-> "none", coords |-> <<>>, legs |-> <<>>, out |-> <<>>]

\* _encode_polyline(coords)
EncodeCall ==
    /\ poly.op = "none"
    /\ poly.legs = <<>>
    /\ poly' = [poly EXCEPT !.op = "encode", !.out = EncodePolyline(poly.coords)]
    /\ UNCHANGED <<fbVars, parseVars, stream, genVars, seg, know, trip, sug>>

\* _decode_polyline(encoded), of the polyline just encoded
DecodeCall ==
    /\ poly.op = "encode"
    /\ poly' = [poly EXCEPT !.op = "decode", !.out = DecodePolyline(poly.out)]
    /\ UNCHANGED <<fbVars, parseVars, stream, genVars, seg, know, trip, sug>>

\* _combine_polylines(polylines)
CombineCall ==
    /\ poly.op = "none"
    /\ poly.coords = <<>>
    /\ poly' = [poly EXCEPT !.op = "combine", !.out = CombinePolylines(poly.legs)]
    /\ UNCHANGED <<fbVars, parseVars, stream, genVars, seg, know, trip, sug>>

PolyInit ==
    /\ poly \in {[NoPoly EXCEPT !.coords = c] : c \in CoordLists}
                \cup {[NoPoly EXCEPT !.legs = l] : l \in LegLists}

PolyNext == EncodeCall \/ DecodeCall \/ CombineCall

(***************************************************************************)
(* The route cache and the legs (RouteCache, _calculate_segment)           *)
(*                                                                         *)
(* distance_km is in tenths of a kilometre. A key "origin:destination" is  *)
(* the pair of the two ids (no id holds a colon). A missing id (None) is   *)
(* "", which `if start_location_id:` treats alike.                         *)
(***************************************************************************)
MaxRoutes == 3  \* entries of the route cache file

CachedRoute(origin_id, destination_id, distance_km, duration_minutes, polyline) ==
    [origin_id |-> origin_id, destination_id |-> destination_id,
     distance_km |-> distance_km, duration_minutes |-> duration_minutes,
     polyline |-> polyline]

\* _make_key
MakeKey(origin_id, destination_id) == <<origin_id, destination_id>>

\* `self._routes[key] = route`: a later entry of the same pair replaces the
\* earlier one
RoutesPut(routes, route) ==
    LET key == MakeKey(route.origin_id, route.destination_id)
    IN  IF \E i \in DOMAIN routes : routes[i].key = key
        THEN [i \in DOMAIN routes |->
                IF routes[i].key = key THEN [key |-> key, route |-> route] ELSE routes[i]]
        ELSE Append(routes, [key |-> key, route |-> route])

\* RouteCache.load() of a well-formed file: the _routes it leaves
RECURSIVE LoadRoutes(_, _)
LoadRoutes(routes, entries) ==
    IF entries = <<>> THEN routes
    ELSE LoadRoutes(RoutesPut(routes, Head(entries)), Tail(entries))

\* RouteCache.get(origin_id, destination_id): <<>> is None
RouteGet(routes, origin_id, destination_id) ==
    LET key == MakeKey(origin_id, destination_id)
    IN  IF \E i \in DOMAIN routes : routes[i].key = key
        THEN <<routes[CHOOSE i \in DOMAIN routes : routes[i].key = key].route>>
        ELSE <<>>

DefaultOrigin == "tokyo_station"

\* get_from_default_origin(destination_id)
GetFromDefaultOrigin(routes, destination_id) == RouteGet(routes, DefaultOrigin, destination_id)

\* `cached_route.polyline or None`
PolylineOrNone(polyline) == IF polyline = <<>> THEN <<>> ELSE <<polyline>>

\* the tuple a cached route gives
FromCache(cached_route, from) ==
    [distance_km |-> cached_route.distance_km,
     duration_minutes |-> cached_route.duration_minutes,
     polyline |-> PolylineOrNone(cached_route.polyline), from |-> from]

\* `start.lat, start.lng` of a Location, `start.latitude, start.longitude`
\* of Coordinates, in tenths of a degree
StartLatLng(start) ==
    IF "latitude" \in DOMAIN start THEN <<start.latitude, start.longitude>>
    ELSE <<start.lat, start.lng>>

Abs(x) == IF x < 0 THEN -x ELSE x

\* round(((lat_diff ** 2 + lng_diff ** 2) ** 0.5) * 111 * 1.3, 1) in tenths
\* of a kilometre, for differences in tenths of a degree: the integer
\* nearest to 144.3 * sqrt(n), n the sum of the squares. (When 144.3 * sqrt(n)
\* is an exact half the float result depends on the representation; no pair
\* of coordinates of the model gives one.)
RoundedKm(lat_diff, lng_diff) ==
    LET n == lat_diff * lat_diff + lng_diff * lng_diff
    IN  CHOOSE k \in 0..(145 * (lat_diff + lng_diff) + 1) :
            /\ k = 0 \/ 25 * (2 * k - 1) * (2 * k - 1) <= 2082249 * n
            /\ 2082249 * n < 25 * (2 * k + 1) * (2 * k + 1)

\* max(int(distance_km / 50 * 60), 15)
EstimatedMinutes(distance_km) ==
    IF (distance_km * 6) \div 50 > 15 THEN (distance_km * 6) \div 50 ELSE 15

\* the straight line times the road factor
Estimate(start, end) ==
    LET lat_diff == Abs(end.lat - StartLatLng(start)[1])
        lng_diff == Abs(end.lng - StartLatLng(start)[2])
        distance_km == RoundedKm(lat_diff, lng_diff)
    IN  [distance_km |-> distance_km, duration_minutes |-> EstimatedMinutes(distance_km),
         polyline |-> <<>>, from |-> "estimate"]

\* Mutant: the pair of the start is not looked up.
ExactRouteSkipped(routes, start_location_id, end_id) == <<>>

\* `if start_location_id: cached_route = self.route_cache.get(start_location_id, end.id)`
ExactRoute(routes, start_location_id, end_id) ==
    IF start_location_id # "" THEN RouteGet(routes, start_location_id, end_id) ELSE <<>>

DefaultOrEstimate(default, start, end) ==
    IF default # <<>> THEN FromCache(default[1], "default_origin") ELSE Estimate(start, end)

ExactOrDefault(exact, routes, start, end) ==
    IF exact # <<>> THEN FromCache(exact[1], "exact")
    ELSE DefaultOrEstimate(GetFromDefaultOrigin(routes, end.id), start, end)

\* _calculate_segment(start, end, start_location_id): the tuple returned,
\* and as history the source it came from
CalculateSegment(routes, start, end, start_location_id) ==
    ExactOrDefault(ExactRoute(routes, start_location_id, end.id), routes, start, end)

\* The origin the caller stands at, and the locations of the dataset.
OriginCoordinates == [latitude |-> 357, longitude |-> 1398]

LocationOf(id) == CHOOSE e \in LocationPool : e.id = id

\* The entries of the route cache file: two for the pair hakone ->
\* kawaguchiko, one from the default origin to each of the two, the last
\* without a polyline.
RoutePool ==
    { CachedRoute("hakone", "kawaguchiko", 552, 75,
                  EncodePolyline(<<<<3523000, 13910000>>, <<3550000, 13880000>>>>)),
      CachedRoute("hakone", "kawaguchiko", 600, 80, <<>>),
      CachedRoute(DefaultOrigin, "kawaguchiko", 1105, 95,
                  EncodePolyline(<<<<3568123, 13976710>>, <<3550000, 13880000>>>>)),
      CachedRoute(DefaultOrigin, "hakone", 900, 85, <<>>) }

RouteFiles ==
    {s \in SeqsUpTo(RoutePool, MaxRoutes) : \A i, j \in DOMAIN s : s[i] = s[j] => i = j}

\* The starts the callers pass: the origin as the default origin, a resolved
\* waypoint under its id, and either after a waypoint that was not found.
Starts ==
    { [start |-> OriginCoordinates, start_location_id |-> DefaultOrigin],
      [start |-> OriginCoordinates, start_location_id |-> ""],
      [start |-> LocationOf("hakone"), start_location_id |-> "hakone"],
      [start |-> LocationOf("hakone"), start_location_id |-> ""],
      [start |-> LocationOf("fujisan"), start_location_id |-> "fujisan"] }

Ends == {LocationOf("hakone"), LocationOf("kawaguchiko"), LocationOf("fujisan")}

NoSeg ==
    [op |-> "none", entries |-> <<>>, start |-> OriginCoordinates, start_location_id |-> "",
     end |-> LocationOf("hakone"), out |-> <<>>]

\* _calculate_segment(start, end, start_location_id) on the route cache the
\* file was loaded into
CalculateSegmentCall ==
    /\ seg.op = "none"
    /\ seg' = [seg EXCEPT !.op = "segment",
                          !.out = <<CalculateSegment(LoadRoutes(<<>>, seg.entries), seg.start,
                                                     seg.end, seg.start_location_id)>>]
    /\ UNCHANGED <<fbVars, parseVars, stream, genVars, poly, know, trip, sug>>

SegInit ==
    seg \in {[NoSeg EXCEPT !.entries = f, !.start = s.start,
                           !.start_location_id = s.start_location_id, !.end = e] :
                f \in RouteFiles, s \in Starts, e \in Ends}

SegNext == CalculateSegmentCall

(***************************************************************************)
(* The waypoint route with its totals (_generate_waypoint_routes)          *)
(*                                                                         *)
(* The route is the RouteFeatures of the final location with the distance, *)
(* the duration and the polyline the loop over the waypoints accumulates;  *)
(* distances are in tenths of a kilometre. The eta and the toll follow     *)
(* from the duration and the distance and are left out.                    *)
(***************************************************************************)
\* `total_distance += 10` and `total_duration += 15` of a waypoint that was
\* not found
PlaceholderKm == 100
PlaceholderMinutes == 15

\* total_distance = 0.0, total_duration = 0, polylines = [], current_pos =
\* origin, current_location_id = "tokyo_station"
StartOfRoute(origin) ==
    [total_distance |-> 0, total_duration |-> 0, polylines |-> <<>>,
     current_pos |-> origin, current_location_id |-> DefaultOrigin]

\* the branch of the loop for a waypoint that was found, after its segment
\* was calculated
AddSegment(acc, wp_location, segment) ==
    [total_distance |-> acc.total_distance + segment.distance_km,
     total_duration |-> acc.total_duration + segment.duration_minutes,
     polylines |-> IF segment.polyline # <<>> THEN Append(acc.polylines, segment.polyline[1])
                   ELSE acc.polylines,
     current_pos |-> wp_location,
     current_location_id |-> wp_location.id]

\* Mutant: a waypoint that was not found adds nothing.
AddPlaceholderNothing(acc) == [acc EXCEPT !.current_location_id = ""]

\* the branch of the loop for a waypoint that was not found
AddPlaceholder(acc) ==
    [acc EXCEPT !.total_distance = @ + PlaceholderKm,
                !.total_duration = @ + PlaceholderMinutes,
                !.current_location_id = ""]

\* the body of the loop, after _find_location_by_name(wp.name) returned
AddWaypoint(acc, routes, wp_location) ==
    IF wp_location # <<>>
    THEN AddSegment(acc, wp_location[1],
                    CalculateSegment(routes, acc.current_pos, wp_location[1],
                                     acc.current_location_id))
    ELSE AddPlaceholder(acc)

\* `for wp in waypoints`: the cache after the lookups and the totals
RECURSIVE AccumulateLegs(_, _, _, _, _)
RECURSIVE AccumulateFound(_, _, _, _, _)
AccumulateLegs(c, f, routes, waypoints, acc) ==
    IF waypoints = <<>> THEN [cache |-> c, value |-> acc]
    ELSE AccumulateFound(FindLocationByName(c, f, Head(waypoints).name), f, routes,
                         Tail(waypoints), acc)

AccumulateFound(found, f, routes, rest, acc) ==
    AccumulateLegs(found.cache, f, routes, rest, AddWaypoint(acc, routes, found.value))

\* `self._combine_polylines(polylines) if polylines else None`
CombinedPolyline(polylines) == IF polylines # <<>> THEN CombinePolylines(polylines) ELSE <<>>

\* RouteFeatures(id="A", ...) of the waypoint route
RouteWithTotals(features, totals) ==
    [id |-> features.id,
     destination_name |-> features.destination_name,
     distance_km |-> totals.total_distance,
     duration_minutes |-> totals.total_duration,
     charging_available |-> features.charging_available,
     noise_level |-> features.noise_level,
     scenery_score |-> features.scenery_score,
     nearby_facilities |-> features.nearby_facilities,
     polyline |-> CombinedPolyline(totals.polylines)]

\* _generate_waypoint_routes from the loop on
TotalledRoute(final_location, waypoints, legs) ==
    [cache |-> legs.cache,
     value |-> [branch |-> "waypoint",
                routes |-> <<RouteWithTotals(WaypointRoute(final_location, waypoints),
                                             legs.value)>>]]

\* _generate_waypoint_routes after the final location was looked for; a
\* final location that was not found hands over to
\* _generate_destination_candidates
TotalsTo(final, f, routes, origin, extraction, waypoints) ==
    IF final.value = <<>>
    THEN [cache |-> GenerateDestinationCandidates(final.cache, f, extraction, 4).cache,
          value |-> [branch |-> "destination",
                     routes |-> GenerateDestinationCandidates(final.cache, f, extraction,
                                                              4).value]]
    ELSE TotalledRoute(final.value[1], waypoints,
                       AccumulateLegs(final.cache, f, routes, waypoints, StartOfRoute(origin)))

\* _generate_waypoint_routes on the sorted waypoints
TotalsOver(c, f, routes, origin, extraction, waypoints) ==
    IF waypoints = <<>> THEN [cache |-> c, value |-> [branch |-> "none", routes |-> <<>>]]
    ELSE TotalsTo(ResolveFinal(c, f, waypoints), f, routes, origin, extraction, waypoints)

\* _generate_waypoint_routes(origin, extraction, current_time)
GenerateWaypointRoutesWithTotals(c, f, routes, origin, extraction) ==
    TotalsOver(c, f, routes, origin, extraction, VisitingOrder(extraction.waypoints))

\* The datasets of the route generator: the two places of the cached
\* routes, one of them alone, all three places with coordinates, a file
\* whose load fails after its first entry, and no file.
TripFiles ==
    { [state |-> "ok", entries |-> <<LocationOf("hakone"), LocationOf("kawaguchiko")>>],
      [state |-> "ok", entries |-> <<LocationOf("kawaguchiko")>>],
      [state |-> "ok", entries |-> <<LocationOf("fujisan"), LocationOf("kawaguchiko"),
                                     LocationOf("hakone")>>],
      [state |-> "ok", entries |-> <<LocationOf("kawaguchiko"), LocationOf("bad")>>],
      [state |-> "missing", entries |-> <<>>] }

\* The dataset files of the combined search: those above, one of four
\* entries in two prefectures, one whose last entry fails after two entries
\* were indexed, and one of a single prefecture.
SearchFiles ==
    TripFiles
    \cup { [state |-> "ok", entries |-> <<LocationOf("hakone"), LocationOf("hakone_yumoto"),
                                          LocationOf("kawaguchiko"), LocationOf("ebina_sa")>>],
            [state |-> "ok", entries |-> <<LocationOf("ebina_sa"), LocationOf("hakone"),
                                          LocationOf("bad")>>],
            [state |-> "ok", entries |-> <<LocationOf("hakone_yumoto"), LocationOf("ebina_sa"),
                                          LocationOf("hakone")>>] }

SearchInit == cache = EmptyCache /\ file \in SearchFiles /\ gen = NoGen

\* The waypoints of the extraction: those of WaypointLists, a final
\* waypoint only the search of last resort finds, and three waypoints with
\* one in the middle or at the start that no location is named like.
TripWaypointLists ==
    WaypointLists \cup
    { <<Wp(Word.Onsen, "final", 0)>>,
      <<Wp(Word.Hakone, "required", 0), Wp(Word.Onsen, "final", 1)>>,
      <<Wp(Word.Hakone, "required", 0), Wp(Word.Umi, "optional", 1),
        Wp(Word.Kawaguchiko, "final", 2)>>,
      <<Wp(Word.Umi, "required", 0), Wp(Word.Hakone, "required", 1),
        Wp(Word.Kawaguchiko, "final", 2)>>,
      <<Wp(Word.Fujisan, "required", 0), Wp(Word.Hakone, "required", 1),
        Wp(Word.Kawaguchiko, "final", 2)>> }

NoTrip ==
    [op |-> "none", entries |-> <<>>, extraction |-> Extraction(<<>>, <<>>, <<>>, <<>>),
     out |-> [branch |-> "none", routes |-> <<>>]]

\* generate_candidates for an extraction with waypoints, on the location
\* cache of the dataset and the route cache the file was loaded into
GenerateWaypointRoutesCall ==
    /\ trip.op = "none"
    /\ \E w \in TripWaypointLists :
          \E r \in {GenerateWaypointRoutesWithTotals(
                        cache, file, LoadRoutes(<<>>, trip.entries), OriginCoordinates,
                        Extraction(w, <<>>, <<>>, <<>>))} :
              /\ cache' = r.cache
              /\ trip' = [trip EXCEPT !.op = "generate",
                                      !.extraction = Extraction(w, <<>>, <<>>, <<>>),
                                      !.out = r.value]
    /\ UNCHANGED <<file, gen, fbVars, parseVars, stream, poly, seg, know, sug>>

TripInit ==
    /\ cache = EmptyCache
    /\ file \in TripFiles
    /\ gen = NoGen
    /\ trip \in {[NoTrip EXCEPT !.entries = e] : e \in RouteFiles}

TripNext == GenerateWaypointRoutesCall

(***************************************************************************)
(* The orchestrator from the candidates on (suggest_route and              *)
(* suggest_route_stream)                                                   *)
(*                                                                         *)
(* A candidate is known by its id and a Route by the id of its candidate   *)
(* and the ranking position it was converted with.                         *)
(***************************************************************************)
\* MockRouteGenerator.ROUTE_IDS and the number of MOCK_DESTINATIONS
MockRouteIds == <<"A", "B", "C", "D", "E">>
MockDestinations == 7

\* MockRouteGenerator.generate_candidates: the first count destinations of
\* the shuffled and sorted list, one id each
MockGenerateCandidates(count) ==
    [i \in 1..(IF count < MockDestinations THEN count ELSE MockDestinations) |->
        [id |-> MockRouteIds[i]]]

\* the count argument both orchestrators pass to either generator
SuggestCount == 4

\* Mutant: the route generator is asked whatever the count of the cache.
CandidatesForCacheOnly(c, f, extraction) ==
    GenerateCandidatesOf(c, f, extraction, SuggestCount)

\* `if self.location_cache.count > 0:` on a cache the count property has
\* looked at
CandidatesFor(c, f, extraction) ==
    IF Len(c.locations) > 0 THEN GenerateCandidatesOf(c, f, extraction, SuggestCount)
    ELSE [cache |-> c, value |-> MockGenerateCandidates(SuggestCount)]

\* [r.id for r in candidates]
CandidateIds(candidates) == [i \in 1..Len(candidates) |-> candidates[i].id]

\* `for i, route_id in enumerate(recommendation.ranking)`: the candidate of
\* each ranking id that names one, converted with its place in the ranking
RECURSIVE RankedRoutes(_, _, _)
RankedRoutes(ids, ranking, i) ==
    IF i > Len(ranking) THEN <<>>
    ELSE (IF ranking[i] \in Range(ids)
          THEN <<[id |-> ranking[i], ranking_position |-> i - 1]>>
          ELSE <<>>) \o RankedRoutes(ids, ranking, i + 1)

\* `for candidate in candidates: if candidate.id not in recommendation.ranking`:
\* appended with len(routes) as its place
RECURSIVE WithUnranked(_, _, _)
WithUnranked(routes, ids, ranking) ==
    IF ids = <<>> THEN routes
    ELSE WithUnranked(IF Head(ids) \notin Range(ranking)
                      THEN Append(routes, [id |-> Head(ids), ranking_position |-> Len(routes)])
                      ELSE routes,
                      Tail(ids), ranking)

\* the two loops that build the routes of the response
OrderRoutes(ids, ranking) == WithUnranked(RankedRoutes(ids, ranking, 1), ids, ranking)

NoSuggestion ==
    [op |-> "none", extraction |-> Extraction(<<>>, <<>>, <<>>, <<>>), candidates |-> <<>>,
     exc |-> "none", ranking |-> <<>>, routes |-> <<>>]

\* the handler after evaluate_routes returned or raised
Evaluated(ids, recommendation) ==
    IF recommendation.exc # "none"
    THEN [NoSuggestion EXCEPT !.candidates = ids, !.exc = recommendation.exc]
    ELSE [NoSuggestion EXCEPT !.candidates = ids, !.ranking = recommendation.value.ranking,
                              !.routes = OrderRoutes(ids, recommendation.value.ranking)]

\* RoutingContext(..., route_candidates=candidates), then the evaluation
Contextualised(ids, answer) ==
    IF Len(ids) < MinCandidates \/ Len(ids) > MaxCandidates
    THEN [NoSuggestion EXCEPT !.candidates = ids, !.exc = "ValueError"]
    ELSE Evaluated(ids, ParseRouteResponse(answer, ids))

\* the handler from step 2 on
SuggestFrom(generated, answer) ==
    [cache |-> generated.cache, value |-> Contextualised(CandidateIds(generated.value), answer)]

\* suggest_route after the extraction
SuggestRouteOf(c, f, extraction, answer) ==
    SuggestFrom(CandidatesFor(EnsureLoaded(c, f), f, extraction), answer)

\* The answers of the model to the evaluation prompt: no JSON, and a
\* recommendation whose ranking is missing, empty, partial, reversed, or
\* holds an id twice or an id of no candidate.
SuggestAnswers ==
    StreamAnswers({JInvalid} \cup
        { JObj([ranking |-> r, recommended_id |-> JStr("A"), explanation |-> JStr("because"),
                confidence |-> JNum(85)])
            : r \in {JAbsent, JList(<<>>), JList(<<JStr("B"), JStr("A")>>),
                     JList(<<JStr("A"), JStr("A"), JStr("Z")>>),
                     JList(<<JStr("Z"), JStr("C")>>),
                     JList(<<JStr("D"), JStr("C"), JStr("B"), JStr("A")>>)} })

\* The datasets of the orchestrator: those of TripFiles, a file without
\* entries and a file that is no JSON.
SuggestFiles ==
    TripFiles \cup {[state |-> "ok", entries |-> <<>>], [state |-> "malformed", entries |-> <<>>]}

\* What the handler leaves, under its name and extraction.
Suggested(op, extraction, r) ==
    /\ cache' = r.cache
    /\ sug' = [r.value EXCEPT !.op = op, !.extraction = extraction]
    /\ UNCHANGED <<file, gen, fbVars, parseVars, stream, poly, seg, know, trip>>

\* suggest_route(request): an exception reaches the endpoint
SuggestRoute ==
    /\ sug.op = "none"
    /\ \E extraction \in Extractions, answer \in SuggestAnswers :
          \E r \in {SuggestRouteOf(cache, file, extraction, answer)} :
              Suggested("suggest_route", extraction, r)

\* `except Exception as e: yield StreamEvent(event=ERROR)`
CaughtAsErrorEvent(value) ==
    IF value.exc # "none" THEN [value EXCEPT !.exc = "error_event"] ELSE value

\* suggest_route_stream(request), consumed to its end: the same steps, an
\* exception ends the stream with an error event
SuggestRouteStream ==
    /\ sug.op = "none"
    /\ \E extraction \in Extractions, answer \in SuggestAnswers :
          \E r \in {SuggestRouteOf(cache, file, extraction, answer)} :
              Suggested("suggest_route_stream", extraction,
                        [r EXCEPT !.value = CaughtAsErrorEvent(r.value)])

SuggestInit ==
    /\ cache = EmptyCache
    /\ file \in SuggestFiles
    /\ gen = NoGen
    /\ sug = NoSuggestion

SuggestNext == SuggestRoute \/ SuggestRouteStream

(***************************************************************************)
(* The keyword search (KnowledgeSearch._keyword_search)                    *)
(*                                                                         *)
(* relevance_score is the pair [num, den] of the fraction.                 *)
(***************************************************************************)
MaxResults == 3     \* the n_results argument

\* `[\s\u3001\u3002\u30fb]`: white space, ideographic comma and full stop,
\* middle dot
Separators == {" ", "touten", "kuten", "nakaguro"}

\* re.split(r'[...]+', query): the pieces between runs of separators, an
\* empty piece before a leading and after a trailing run
RECURSIVE SplitFrom(_, _, _, _)
SplitFrom(rest, piece, pieces, in_run) ==
    IF rest = <<>> THEN Append(pieces, piece)
    ELSE IF Head(rest) \in Separators
    THEN IF in_run THEN SplitFrom(Tail(rest), piece, pieces, TRUE)
                   ELSE SplitFrom(Tail(rest), <<>>, Append(pieces, piece), TRUE)
    ELSE SplitFrom(Tail(rest), Append(piece, Head(rest)), pieces, FALSE)

Split(query) == SplitFrom(query, <<>>, <<>>, FALSE)

\* japanese_keywords
JapaneseKeywords ==
    << Word.Onsen, <<"ki", "ya", "nn", "pu">>, Word.Michinoeki,
       <<"R", "V", "pa", "--", "ku">>, <<"sha", "chuu", "haku">>, Word.Juden,
       Word.Umi, Word.Yama, Word.Mizuumi, <<"kawa2">>, <<"taki">>, <<"mori">>,
       <<"kou2", "you">>, <<"sakura">>, <<"yoru", "kei2">>,
       Word.Shizuka, Word.Keshiki, <<"zetsu", "kei2">>, Word.Shizen,
       <<"ri", "ra", "ttsu", "ku", "su">>, <<"kan", "kou3">>,
       Word.Fujisan, Word.Hakone, Word.Kawaguchiko, <<"karu", "ido", "zawa">>,
       <<"nichi", "kou3">>, <<"kusa", "tsu">> >>

\* The keywords of a query: the pieces, then every listed keyword the query
\* contains and the list does not hold yet, empty pieces removed at the end.
Keywords(query) ==
    SelectSeq(FoldLeft(LAMBDA acc, kw :
                          IF In(kw, query) /\ kw \notin Range(acc) THEN Append(acc, kw) ELSE acc,
                       Split(query), JapaneseKeywords),
              LAMBDA k : k # <<>>)

\* " ".join(parts)
RECURSIVE JoinSpace(_)
JoinSpace(parts) ==
    IF parts = <<>> THEN <<>>
    ELSE IF Len(parts) = 1 THEN parts[1]
    ELSE parts[1] \o <<" ">> \o JoinSpace(Tail(parts))

\* The prefecture as written in the dataset.
PrefectureName(prefecture) ==
    CASE prefecture = "kanagawa" -> <<"kami", "na2", "kawa2", "ken">>
      [] prefecture = "yamanashi" -> <<"yama", "nashi", "ken">>
      [] OTHER -> <<"shizu", "oka", "ken">>

SearchableText(location) ==
    Lower(JoinSpace(<< location.name, PrefectureName(location.prefecture),
                       JoinSpace(location.aliases), JoinSpace(location.tags),
                       location.description, JoinSpace(location.specialties),
                       JoinSpace(location.facilities) >>))

\* `for keyword in keywords: if keyword.lower() in searchable_text: score += 1`
KeywordScore(keywords, text) ==
    Cardinality({i \in DOMAIN keywords : In(Lower(keywords[i]), text)})

\* the filter checks of the scoring loop
FilteredOut(location, require_ev_charging, require_overnight_parking) ==
    \/ require_ev_charging /\ ~location.ev_charging
    \/ require_overnight_parking /\ ~location.overnight_parking

\* Mutant: the padding loop does not look at the flags.
PaddingFilteredOutNever(location, require_ev_charging, require_overnight_parking) == FALSE

\* the filter checks of the padding loop
PaddingFilteredOut(location, require_ev_charging, require_overnight_parking) ==
    \/ require_ev_charging /\ ~location.ev_charging
    \/ require_overnight_parking /\ ~location.overnight_parking

\* _location_to_knowledge
LocationToKnowledge(location, num, den) ==
    [id |-> location.id, name |-> location.name, ev_charging |-> location.ev_charging,
     overnight_parking |-> location.overnight_parking,
     relevance_score |-> [num |-> num, den |-> den]]

\* scored_locations, sorted: the locations that pass the filter and match a
\* keyword, by descending score (all have the same denominator)
ScoredLocations(locations, keywords, require_ev_charging, require_overnight_parking) ==
    SortedDesc(LAMBDA x : x.relevance_score.num,
        FoldLeft(LAMBDA acc, location :
                    IF FilteredOut(location, require_ev_charging, require_overnight_parking)
                       \/ KeywordScore(keywords, SearchableText(location)) = 0
                    THEN acc
                    ELSE Append(acc, LocationToKnowledge(location,
                                        KeywordScore(keywords, SearchableText(location)),
                                        Len(keywords))),
                 <<>>, locations))

\* the padding loop: relevance 0.3, until n_results are there
KnowledgePadding(locations, results, n_results, require_ev_charging, require_overnight_parking) ==
    IF Len(results) < n_results
    THEN results \o
         Take(FoldLeft(LAMBDA acc, location :
                          IF location.id \in {results[i].id : i \in DOMAIN results}
                             \/ PaddingFilteredOut(location, require_ev_charging,
                                                   require_overnight_parking)
                          THEN acc
                          ELSE Append(acc, LocationToKnowledge(location, 3, 10)),
                       <<>>, locations),
              n_results - Len(results))
    ELSE results

\* _keyword_search on the locations get_all() returns
KeywordSearch(locations, query, n_results, require_ev_charging, require_overnight_parking) ==
    KnowledgePadding(locations,
                     Take(ScoredLocations(locations, Keywords(query), require_ev_charging,
                                          require_overnight_parking), n_results),
                     n_results, require_ev_charging, require_overnight_parking)

\* "onsen", "quiet lake", "somewhere to go" (no keyword of the dataset),
\* "charging, Fuji", and the empty query
KnowledgeQueries ==
    { Word.Onsen,
      Word.Shizuka \o <<"na3">> \o Word.Mizuumi,
      <<"do", "ko2", "ka", "iku", "ki2", "ta", "ii">>,
      Word.Juden \o <<"touten">> \o Word.Fujisan,
      <<>> }

NoKnow ==
    [op |-> "none", query |-> <<>>, n_results |-> 0, require_ev_charging |-> FALSE,
     require_overnight_parking |-> FALSE, out |-> <<>>]

\* search(query, n_results, require_ev_charging, require_overnight_parking)
\* without a vector store: get_all() loads the cache when it is not loaded.
KeywordSearchCall ==
    /\ know.op = "none"
    /\ \E query \in KnowledgeQueries, n_results \in 0..MaxResults,
          require_ev_charging \in BOOLEAN, require_overnight_parking \in BOOLEAN,
          c \in {EnsureLoaded(cache, file)} :
            /\ cache' = c
            /\ know' = [op |-> "search", query |-> query, n_results |-> n_results,
                        require_ev_charging |-> require_ev_charging,
                        require_overnight_parking |-> require_overnight_parking,
                        out |-> KeywordSearch(c.locations, query, n_results,
                                              require_ev_charging,
                                              require_overnight_parking)]
    /\ UNCHANGED <<file, gen, fbVars, parseVars, stream, poly, seg, trip, sug>>

KnowNext == KeywordSearchCall

ToolIdle == poly = NoPoly /\ seg = NoSeg /\ know = NoKnow /\ trip = NoTrip
            /\ sug = NoSuggestion

(***************************************************************************)
(* Specifications                                                          *)
(***************************************************************************)

\* __init__: the failure set is empty, the active client is the first one.
FallbackInit ==
    /\ clients \in Chains
    /\ failed_providers = {}
    /\ active_client = clients[1]
    /\ call = [k \in Calls |-> IdleCall]
    /\ marked = {}

FallbackIdle ==
    /\ clients = <<"mock">>
    /\ failed_providers = {}
    /\ active_client = "mock"
    /\ call = [k \in Calls |-> IdleCall]
    /\ marked = {}
    /\ observe = FALSE

\* An answer to the extraction prompt with the query it was asked for, or an
\* answer to the evaluation prompt with the candidates it was asked about.
ParseInit ==
    /\ \/ /\ llm_response \in ExtractionResponses
          /\ original_query \in Queries
          /\ route_ids = <<>>
       \/ /\ llm_response \in RouteResponses
          /\ original_query = ""
          /\ route_ids \in RouteIdLists
    /\ parse_out = NoParse

ParseIdle ==
    /\ llm_response = [fence |-> FALSE, prose |-> FALSE, body |-> JInvalid]
    /\ original_query = ""
    /\ route_ids = <<>>
    /\ parse_out = NoParse

\* Calls made one after the other on one wrapper.
SeqNext ==
    \/ \E kind \in Kinds : StartCall(1, kind)
    \/ ClientReturns(1)
    \/ ClientYields(1)
    \/ ClientRaises(1)
    \/ MockYields(1)
    \/ MockEnds(1)

InitFallbackSeq == FallbackInit /\ observe = TRUE /\ ParseIdle /\ StreamInit /\ GenIdle /\ ToolIdle

SpecFallbackSeq == InitFallbackSeq /\ [][SeqNext]_vars

\* Calls interleaved at their suspension points, and reset_failures().
FallbackNext ==
    \/ \E k \in Calls, kind \in Kinds : StartCall(k, kind)
    \/ \E k \in Calls : ClientReturns(k)
    \/ \E k \in Calls : ClientYields(k)
    \/ \E k \in Calls : ClientRaises(k)
    \/ \E k \in Calls : MockYields(k)
    \/ \E k \in Calls : MockEnds(k)
    \/ ResetFailures

InitFallback == FallbackInit /\ observe = FALSE /\ ParseIdle /\ StreamInit /\ GenIdle /\ ToolIdle

SpecFallback == InitFallback /\ [][FallbackNext]_vars

\* One answer of the model is parsed.
ParseNext == ParseExtraction \/ ParseRoute

InitParse == FallbackIdle /\ ParseInit /\ StreamInit /\ GenIdle /\ ToolIdle

SpecParse == InitParse /\ [][ParseNext]_vars

\* One run of suggest_route_stream, consumed to its end.
InitStream == FallbackIdle /\ ParseIdle /\ StreamInit /\ GenIdle /\ ToolIdle

SpecStream == InitStream /\ [][StreamNext]_vars

\* The dataset file is loaded and candidates are generated once.
InitGenerate == FallbackIdle /\ ParseIdle /\ StreamInit /\ GenInit /\ ToolIdle

SpecGenerate == InitGenerate /\ [][GenNext]_vars

\* A coordinate sequence is encoded and decoded, or a list of legs stitched.
InitPolyline ==
    FallbackIdle /\ ParseIdle /\ StreamInit /\ GenIdle /\ PolyInit /\ seg = NoSeg /\ know = NoKnow
    /\ trip = NoTrip /\ sug = NoSuggestion

SpecPolyline == InitPolyline /\ [][PolyNext]_vars

\* One leg is computed on a route cache.
InitSegment ==
    FallbackIdle /\ ParseIdle /\ StreamInit /\ GenIdle /\ poly = NoPoly /\ SegInit /\ know = NoKnow
    /\ trip = NoTrip /\ sug = NoSuggestion

SpecSegment == InitSegment /\ [][SegNext]_vars

\* One keyword search on the cache of a dataset file.
InitKnowledge ==
    FallbackIdle /\ ParseIdle /\ StreamInit /\ GenInit /\ ToolIdle

SpecKnowledge == InitKnowledge /\ [][KnowNext]_vars

\* The dataset file is loaded and the cache is read, in any order.
SpecIndex == InitGenerate /\ [][IndexNext]_vars

\* The combined search with every filter.
InitSearch == FallbackIdle /\ ParseIdle /\ StreamInit /\ SearchInit /\ ToolIdle

SpecSearch == InitSearch /\ [][SearchNext]_vars

\* One waypoint route is generated on a dataset and a route cache.
InitWaypoint ==
    FallbackIdle /\ ParseIdle /\ StreamInit /\ TripInit /\ poly = NoPoly /\ seg = NoSeg
    /\ know = NoKnow /\ sug = NoSuggestion

SpecWaypoint == InitWaypoint /\ [][TripNext]_vars

\* One request is served by the orchestrator, from the candidates on.
InitSuggest ==
    FallbackIdle /\ ParseIdle /\ StreamInit /\ SuggestInit /\ poly = NoPoly /\ seg = NoSeg
    /\ know = NoKnow /\ trip = NoTrip

SpecSuggest == InitSuggest /\ [][SuggestNext]_vars

Spec == SpecFallback

(***************************************************************************)
(* Claims about the fallback wrapper                                       *)
(***************************************************************************)

\* C1: on a wrapper that starts with an empty failure set, no chat, chat_fast
\* or chat_stream call of any sequence of calls ends with an exception: a
\* call returns the response of the last variant it invoked, or, when every
\* variant it invoked raised, the mock response, and then the failure set
\* has been reset to empty.
C1_EveryCallReturns ==
    \A k \in Calls :
        /\ call[k].pc # "raised"
        /\ call[k].pc = "mock" => failed_providers = {}
        /\ call[k].pc = "returned" =>
              \/ /\ call[k].result = MockFloor
                 /\ call[k].last_error
                 /\ failed_providers = {}
              \/ /\ call[k].result \in Range(clients)
                 /\ call[k].tried # <<>>
                 /\ call[k].result = Last(call[k].tried)

C1_Witness ==
    /\ Len(clients) > 2
    /\ call[1].pc = "returned"
    /\ call[1].result = MockFloor
    /\ Len(call[1].tried) = Len(clients)
    /\ failed_providers = {}

\* C2: a chat() call that starts with an empty failure set invokes the
\* variants in list order, returns the result of the first one that does not
\* raise and leaves exactly the variants before it in the failure set; and a
\* call never invokes a variant that was in the failure set when it started.
C2_FirstSuccessInOrder ==
    /\ \A i \in 1..Len(clients) :
          ( /\ call[1].pc = "returned"
            /\ call[1].kind = "chat"
            /\ call[1].start_failed = {}
            /\ call[1].result = clients[i] )
          => /\ call[1].tried = SubSeq(clients, 1, i)
             /\ failed_providers = {clients[j] : j \in 1..(i - 1)}
    /\ call[1].kind = "chat" =>
          Range(call[1].tried) \cap call[1].start_failed = {}

C2_Witness ==
    /\ Len(clients) = 3
    /\ call[1].pc = "returned"
    /\ call[1].kind = "chat"
    /\ call[1].start_failed = {}
    /\ call[1].result = clients[3]
    /\ call[1].tried = clients
    /\ failed_providers = {clients[1], clients[2]}

\* C3: a variant marked failed is not invoked by any call as long as the
\* failure set has not been cleared (by reset_failures() or by a call in
\* which every remaining variant raised) since it was marked.
InvokedNow(k) ==
    /\ call'[k].pc = "awaiting"
    /\ call[k].pc # "awaiting" \/ call'[k].idx # call[k].idx

C3_MarkedNotInvoked ==
    [][\A k \in Calls : InvokedNow(k) => clients[call'[k].idx] \notin marked']_vars

\* A call that raised nothing itself awaits a later variant: it skipped the
\* marked ones.
C3_Witness ==
    \E k \in Calls :
        /\ call[k].pc = "awaiting"
        /\ ~call[k].last_error
        /\ call[k].idx > 1
        /\ marked # {}

\* C4: with chat calls interleaved at their suspension points on one shared
\* wrapper, every call returns a variant's result or the mock response; none
\* raises "No LLM clients available".
C4_InterleavedCallsReturn ==
    \A k \in Calls :
        /\ call[k].result # "RuntimeError"
        /\ call[k].pc \in {"idle", "awaiting", "mock", "returned"}
        /\ call[k].pc = "returned" => call[k].result \in Range(clients) \cup {MockFloor}

\* One call has cleared the set and got the mock response while another, which
\* had marked a variant itself, is still awaiting a later one.
C4_Witness ==
    \E k1, k2 \in Calls :
        /\ k1 # k2
        /\ call[k1].pc = "awaiting"
        /\ call[k1].last_error
        /\ call[k2].pc = "returned"
        /\ call[k2].result = MockFloor

(***************************************************************************)
(* Claims about the parsers                                                *)
(***************************************************************************)

\* The answers the extraction parser cannot use: text that is no JSON (with
\* or without a fenced block), JSON that is no object, and a waypoints array
\* with an entry that is no object.
UnusableExtraction(response) ==
    LET d == JsonLoads(response)
    IN  \/ d = JInvalid
        \/ d.t # "obj"
        \/ /\ d.v.waypoints.t = "list"
           /\ \E i \in 1..Len(d.v.waypoints.v) : d.v.waypoints.v[i].t # "obj"

\* C5: extraction never raises to its caller, and for every answer without
\* usable JSON (none, invalid, or of the wrong shape: a list, null, waypoints
\* entries that are no objects) it returns the extraction with empty
\* waypoints, facility_types, amenities and atmosphere and the caller's query.
C5_ExtractionNeverRaises ==
    parse_out.op = "extraction" =>
        /\ parse_out.exc = "none"
        /\ UnusableExtraction(llm_response) =>
              /\ parse_out.value.waypoints = <<>>
              /\ parse_out.value.facility_types = <<>>
              /\ parse_out.value.amenities = <<>>
              /\ parse_out.value.atmosphere = <<>>
              /\ parse_out.value.original_query = original_query

\* The part of C5 the code does keep: text that is no JSON gives the empty
\* extraction with the caller's query.
C5_Witness ==
    /\ parse_out.op = "extraction"
    /\ JsonLoads(llm_response) = JInvalid
    /\ parse_out.exc = "none"
    /\ parse_out.value = DefaultExtraction(original_query)
    /\ original_query # ""

\* The answers the evaluation parser cannot turn into a recommendation: text
\* that is no JSON, JSON that is no object, an object without a well-formed
\* ranking, recommended id, explanation or confidence.
UnusableRecommendation(response) ==
    LET d == JsonLoads(response)
    IN  \/ d = JInvalid
        \/ d.t # "obj"
        \/ d.v.ranking.t # "list"
        \/ d.v.recommended_id.t # "str"
        \/ d.v.explanation.t # "str"
        \/ ~ValidConfidence(d.v.confidence)

\* C6: evaluation never raises, and for every answer that cannot be parsed
\* into a recommendation it returns the default one: the candidate ids in
\* their original order, the first candidate recommended, confidence 0.3.
C6_EvaluationNeverRaises ==
    parse_out.op = "route" =>
        /\ parse_out.exc = "none"
        /\ UnusableRecommendation(llm_response) =>
              /\ parse_out.value.ranking = route_ids
              /\ parse_out.value.recommended_id = route_ids[1]
              /\ parse_out.value.confidence = DefaultConfidence

C6_Witness ==
    /\ parse_out.op = "route"
    /\ JsonLoads(llm_response) = JInvalid
    /\ Len(route_ids) > 1
    /\ parse_out.exc = "none"
    /\ parse_out.value = DefaultRecommendation(route_ids)

(***************************************************************************)
(* Claims about the streaming orchestrator                                 *)
(***************************************************************************)

\* The place in the order step_start(0), thinking*, step_complete(0),
\* step_start(1), step_complete(1), step_start(2), thinking*,
\* step_complete(2), routes, done that a sequence of events has reached:
\* "0".."7" on the way, "done" or "error" at an end, "reject" when the
\* sequence does not follow the order or goes on after done or error.
OrderAfter(place, e) ==
    CASE e.event = "error" /\ place \notin {"done", "error", "reject"} -> "error"
      [] place = "0" /\ e = Event("step_start", 0) -> "1"
      [] place = "1" /\ e = Event("thinking", 0) -> "1"
      [] place = "1" /\ e = Event("step_complete", 0) -> "2"
      [] place = "2" /\ e = Event("step_start", 1) -> "3"
      [] place = "3" /\ e = Event("step_complete", 1) -> "4"
      [] place = "4" /\ e = Event("step_start", 2) -> "5"
      [] place = "5" /\ e = Event("thinking", 2) -> "5"
      [] place = "5" /\ e = Event("step_complete", 2) -> "6"
      [] place = "6" /\ e.event = "routes" -> "7"
      [] place = "7" /\ e.event = "done" -> "done"
      [] OTHER -> "reject"

RECURSIVE OrderOf(_)
OrderOf(events) ==
    IF events = <<>> THEN "0"
    ELSE OrderAfter(OrderOf(SubSeq(events, 1, Len(events) - 1)), Last(events))

CountOf(events, kinds) == Cardinality({i \in 1..Len(events) : events[i].event \in kinds})

\* C7: the events of a stream follow the order step_start(0), thinking*,
\* step_complete(0), step_start(1), step_complete(1), step_start(2),
\* thinking*, step_complete(2), routes, done; when a step raises, one error
\* event is the last event and no routes or done follows it; no exception
\* leaves the generator; a stream that has ended holds exactly one done or
\* error event, as its last event.
C7_StreamOrder ==
    /\ OrderOf(stream.events) # "reject"
    /\ ~stream.propagated
    /\ stream.pc \in {"end", "closed"} =>
          /\ OrderOf(stream.events) \in {"done", "error"}
          /\ CountOf(stream.events, {"done", "error"}) = 1
          /\ Last(stream.events).event \in {"done", "error"}

\* A stream that relayed tokens of both LLM steps and ended with an error
\* raised after the evaluation.
C7_Witness ==
    /\ stream.pc = "closed"
    /\ Last(stream.events).event = "error"
    /\ Event("thinking", 0) \in Range(stream.events)
    /\ Event("thinking", 2) \in Range(stream.events)
    /\ Event("step_complete", 1) \in Range(stream.events)

(***************************************************************************)
(* Claims about the candidate generator                                    *)
(***************************************************************************)
DestinationNames(candidates) == [i \in 1..Len(candidates) |-> candidates[i].destination_name]

LocationNames(results) == [i \in 1..Len(results) |-> results[i].location.name]

\* The names of search results, then those of the locations they leave
\* out by falling scenery score.
ThenPadding(c, found) == LocationNames(found \o Padding(c, found, Len(c.locations)))

ResultsThenPadding(c, extraction, count) ==
    ThenPadding(c, Search(c, <<>>, extraction.facility_types, extraction.amenities,
                          extraction.atmosphere, "", count * 2))

SmallerOf(a, b) == IF a < b THEN a ELSE b

\* C8: for an extraction with an empty waypoint list, generate_candidates
\* returns min(count, number of indexed locations) candidates, the search
\* results first and then the highest-scenery-score locations not already
\* selected.
C8_CountWithoutWaypoints ==
    (gen.op = "generate" /\ gen.extraction.waypoints = <<>>) =>
        /\ Len(gen.out) = SmallerOf(gen.count, Len(cache.locations))
        /\ DestinationNames(gen.out)
              = Take(ResultsThenPadding(cache, gen.extraction, gen.count),
                     SmallerOf(gen.count, Len(cache.locations)))

\* A call without waypoints that asks for several candidates of an index
\* that holds several locations.
C8_Witness ==
    /\ gen.op = "generate"
    /\ gen.extraction.waypoints = <<>>
    /\ gen.count >= 2
    /\ cache.loaded
    /\ Len(cache.locations) >= 2
    /\ Len(gen.out) >= 1

\* C9: for an extraction with a non-empty waypoint list, generate_candidates
\* returns exactly one candidate, whatever count is and whether or not the
\* final waypoint resolves to an indexed location.
C9_OneCandidateWithWaypoints ==
    (gen.op = "generate" /\ gen.extraction.waypoints # <<>>) => Len(gen.out) = 1

\* A call whose final waypoint resolves to no location of a loaded index.
C9_Witness ==
    /\ gen.op = "generate"
    /\ gen.extraction.waypoints # <<>>
    /\ cache.loaded
    /\ Len(cache.locations) >= 2
    /\ ResolveFinal(cache, file, VisitingOrder(gen.extraction.waypoints)).value = <<>>

\* The position of the final waypoint in the visiting order: the first
\* waypoint typed final, else the last one.
FinalPosition(waypoints) ==
    IF \E i \in DOMAIN waypoints : waypoints[i].type = "final"
    THEN MinOf({i \in DOMAIN waypoints : waypoints[i].type = "final"})
    ELSE Len(waypoints)

\* The names of the waypoints other than the final one, in visiting order.
OtherNames(waypoints) ==
    LET others == SelectSeq([i \in DOMAIN waypoints |-> [at |-> i, name |-> waypoints[i].name]],
                            LAMBDA e : e.at # FinalPosition(waypoints))
    IN  [i \in 1..Len(others) |-> others[i].name]

\* What C10 says of the candidates out for the waypoints and the location
\* (<<>> when there is none) the final waypoint resolved to.
ViaEntryNamesTheOthers(out, waypoints, final) ==
    final # <<>> =>
        /\ Len(out) = 1
        /\ out[1].destination_name = final[1].name
        /\ out[1].nearby_facilities
              = IF OtherNames(waypoints) = <<>> THEN NearbyFacilities(final[1])
                ELSE <<Word.Keiyu \o Join(OtherNames(waypoints))>> \o NearbyFacilities(final[1])

\* C10: in the waypoint branch the candidate's destination name is the name
\* of the location the final waypoint (typed final, else last by order)
\* resolved to; the first entry of its nearby facilities is "via: " followed
\* by the names of exactly the other waypoints in visiting order; no such
\* entry is added when the final waypoint is the only waypoint.
C10_ViaEntryNamesTheOthers ==
    (gen.op = "generate" /\ gen.extraction.waypoints # <<>>) =>
        ViaEntryNamesTheOthers(
            gen.out, VisitingOrder(gen.extraction.waypoints),
            ResolveFinal(cache, file, VisitingOrder(gen.extraction.waypoints)).value)

\* A route over two resolved waypoints of which none is typed final.
C10_Witness ==
    /\ gen.op = "generate"
    /\ Len(gen.extraction.waypoints) = 2
    /\ \A i \in 1..2 : gen.extraction.waypoints[i].type # "final"
    /\ \A i \in 1..2 : GetByName(cache, gen.extraction.waypoints[i].name) # <<>>
    /\ Len(gen.out) = 1
    /\ gen.out[1].destination_name = Word.Kawaguchiko

(***************************************************************************)
(* The location index                                                      *)
(***************************************************************************)

\* No load() has succeeded, and one was attempted.
EveryLoadFailed == gen.loads >= 1 /\ ~cache.loaded

IndexesEmpty ==
    /\ cache.locations = <<>>
    /\ cache.name_index = <<>>
    /\ cache.type_index = <<>>
    /\ cache.tag_index = <<>>
    /\ cache.prefecture_index = <<>>

\* What an accessor returns when it found nothing.
ReturnsNothing ==
    gen.out = (IF gen.op = "count" THEN <<0>> ELSE <<>>)

\* C11: when the dataset file is missing or malformed, or an entry fails
\* validation after earlier entries were read, load() returns False and the
\* index stays empty: the count is 0, lookups and searches return nothing.
C11_FailedLoadLeavesIndexEmpty ==
    EveryLoadFailed =>
        /\ gen.op = "load" => ~gen.ok
        /\ IndexesEmpty
        /\ gen.op \in {"get_by_id", "get_by_name", "search", "get_all", "count"}
              => ReturnsNothing

\* A file whose first entry is valid and whose second is not was read by a
\* load() that returned False, and a lookup by name then found the first.
C11_Witness ==
    /\ file.state = "ok"
    /\ Len(file.entries) >= 2
    /\ ValidLocation(file.entries[1])
    /\ ~ValidLocation(file.entries[2])
    /\ ~cache.loaded
    /\ ~gen.ok
    /\ gen.op = "get_by_name"
    /\ gen.out # <<>>

\* C12: once load() has succeeded, every further load() returns True and
\* leaves the locations map and the name, type, tag and prefecture indexes as
\* they are (and so does every accessor).
C12_LoadedStaysLoaded ==
    [][cache.loaded =>
          /\ cache' = cache
          /\ gen'.loads # gen.loads => (gen'.op = "load" /\ gen'.ok)]_vars

\* load() was called again on a loaded cache that holds locations.
C12_Witness ==
    /\ cache.loaded
    /\ Len(cache.locations) >= 2
    /\ gen.op = "load"
    /\ gen.loads >= 2
    /\ gen.ok

\* C13: for every loaded location L and every alias A of L, get_by_name(A)
\* and get_by_name(L.name) return the same location, also when A is the
\* name or an alias of another location.
C13_AliasResolvesLikeName ==
    (cache.loaded /\ gen.op = "get_by_name") =>
        \A i \in DOMAIN cache.locations :
            gen.arg \in Range(cache.locations[i].aliases)
                => gen.out = GetByName(cache, cache.locations[i].name)

\* get_by_name was called with an alias that two loaded locations have, and
\* returned the one loaded first.
C13_Witness ==
    /\ cache.loaded
    /\ gen.op = "get_by_name"
    /\ gen.out # <<>>
    /\ \E i \in DOMAIN cache.locations :
          /\ gen.arg \in Range(cache.locations[i].aliases)
          /\ gen.out[1].id # cache.locations[i].id
          /\ GetByName(cache, cache.locations[i].name) = <<cache.locations[i]>>

\* The ids indexed under exactly the name searched for.
ExactIds == Range(IndexGet(cache.name_index, Lower(gen.arg)))

\* The searched name is the name of a loaded location.
NamesALocation ==
    \E i \in DOMAIN cache.locations : Lower(cache.locations[i].name) = Lower(gen.arg)

\* C14: when search(place_names=[X]) is called with no other criterion and X
\* is the name of a location, that location scores at least as much as every
\* location X matches only as a substring of names or aliases, however many
\* of them match, and so is ranked first.
C14_ExactNameRankedFirst ==
    (cache.loaded /\ gen.op = "search" /\ NamesALocation) =>
        /\ gen.out # <<>>
        /\ gen.out[1].location.id \in ExactIds
        /\ \A i, j \in DOMAIN gen.out :
              (Lower(gen.out[i].location.name) = Lower(gen.arg)
                    /\ gen.out[j].location.id \notin ExactIds)
                 => gen.out[i].score >= gen.out[j].score

\* A search by the name of one location returned first another location,
\* whose name and alias both contain the name searched for.
C14_Witness ==
    /\ cache.loaded
    /\ gen.op = "search"
    /\ NamesALocation
    /\ Len(gen.out) >= 2
    /\ gen.out[1].location.id \notin ExactIds
    /\ gen.out[1].score = 160
    /\ gen.out[2].location.id \in ExactIds
    /\ gen.out[2].score = 150

\* No id is listed twice under one key of the index.
NoIdTwice(index) ==
    \A k \in DOMAIN index :
        \A i, j \in DOMAIN index[k].ids : index[k].ids[i] = index[k].ids[j] => i = j

\* C20: after any sequence of load() attempts and accessor calls, each of
\* which retries the load while the cache is not loaded, every location id
\* is listed at most once under each key of the name, type, tag and
\* prefecture indexes, so that a search scores as it does after one attempt.
C20_IdsIndexedOnce ==
    /\ NoIdTwice(cache.name_index)
    /\ NoIdTwice(cache.type_index)
    /\ NoIdTwice(cache.tag_index)
    /\ NoIdTwice(cache.prefecture_index)
    /\ gen.op = "search"
         => gen.out = Search(Load(EmptyCache, file).cache, <<gen.arg>>, <<>>, <<>>, <<>>, "",
                             DefaultLimit)

\* The file's second entry is invalid; the load was attempted twice or more,
\* the first entry is listed twice under its name, and a search by that name
\* scored it twice.
C20_Witness ==
    /\ ~cache.loaded
    /\ gen.loads >= 2
    /\ gen.op = "search"
    /\ Len(file.entries) >= 2
    /\ gen.arg = file.entries[1].name
    /\ ~NoIdTwice(cache.name_index)
    /\ gen.out # <<>>
    /\ gen.out[1].location.id = "kawaguchiko"
    /\ gen.out[1].score = 300

(***************************************************************************)
(* Polylines                                                               *)
(***************************************************************************)

\* C16: decoding the encoding of a non-empty sequence of coordinates of
\* five decimal places within +-90 / +-180 degrees gives the same sequence,
\* negative values and repeated points included.
C16_PolylineRoundTrip ==
    poly.op = "decode" => poly.out = poly.coords

\* A sequence with a negative coordinate and a repeated point (two zero
\* deltas) went through the encoder and the decoder.
C16_Witness ==
    /\ poly.op = "decode"
    /\ Len(poly.coords) = 2
    /\ poly.coords[1] = poly.coords[2]
    /\ poly.coords[1][1] < 0
    /\ poly.coords[1][2] = 18000000
    /\ Len(poly.out) = 2

\* The coordinates of the legs, each leg decoded.
LegCoords == [i \in DOMAIN poly.legs |-> DecodePolyline(poly.legs[i])]

\* The legs' sequences one after the other; the first point of a leg is left
\* out exactly when it is the last point so far.
RECURSIVE Concatenation(_, _)
Concatenation(sofar, rest) ==
    IF rest = <<>> THEN sofar
    ELSE IF Head(rest) = <<>> THEN Concatenation(sofar, Tail(rest))
    ELSE IF sofar # <<>> /\ Head(rest)[1] = sofar[Len(sofar)]
    THEN Concatenation(sofar \o Tail(Head(rest)), Tail(rest))
    ELSE Concatenation(sofar \o Head(rest), Tail(rest))

\* C17: stitching a list of leg polylines decodes to the legs' coordinate
\* sequences one after the other, the first point of a leg dropped exactly
\* when it equals the last point accumulated; two legs that overlap in one
\* junction point give sum of lengths minus one points; a list of one
\* polyline is returned unchanged; an empty list gives no polyline.
C17_Stitching ==
    poly.op = "combine" =>
        /\ poly.legs = <<>> => poly.out = <<>>
        /\ Len(poly.legs) = 1 => poly.out = <<poly.legs[1]>>
        /\ Len(poly.legs) >= 2 =>
              IF Concatenation(<<>>, LegCoords) = <<>>
              THEN poly.out = <<>>
              ELSE /\ poly.out # <<>>
                   /\ DecodePolyline(poly.out[1]) = Concatenation(<<>>, LegCoords)
        /\ (Len(poly.legs) = 2 /\ LegCoords[1] # <<>> /\ LegCoords[2] # <<>>)
              => Len(DecodePolyline(poly.out[1]))
                    = Len(LegCoords[1]) + Len(LegCoords[2])
                        - (IF Last(LegCoords[1]) = LegCoords[2][1] THEN 1 ELSE 0)

\* Two legs of two points each, the second starting where the first ends,
\* were stitched into three points.
C17_Witness ==
    /\ poly.op = "combine"
    /\ Len(poly.legs) = 2
    /\ Len(LegCoords[1]) = 2
    /\ Len(LegCoords[2]) = 2
    /\ Last(LegCoords[1]) = LegCoords[2][1]
    /\ LegCoords[1][1] # LegCoords[2][2]
    /\ poly.out # <<>>
    /\ Len(DecodePolyline(poly.out[1])) = 3

(***************************************************************************)
(* Legs                                                                    *)
(***************************************************************************)

\* The entries of the route cache file for a pair; the cache holds the last.
EntriesFor(origin_id, destination_id) ==
    SelectSeq(seg.entries,
              LAMBDA r : r.origin_id = origin_id /\ r.destination_id = destination_id)

\* The leg has the distance, the duration and the polyline of the entry (an
\* entry's empty polyline is no polyline).
LegIs(r) ==
    /\ seg.out[1].distance_km = r.distance_km
    /\ seg.out[1].duration_minutes = r.duration_minutes
    /\ seg.out[1].polyline = (IF r.polyline = <<>> THEN <<>> ELSE <<r.polyline>>)

\* C15: a leg from a located start has the distance, duration and polyline
\* of the cache entry for (start id, destination id) when there is one,
\* also when there is an entry for (default origin, destination id); the
\* default-origin entry is used only when the exact pair is absent, and the
\* geometric estimate only when both are absent.
C15_SegmentPrecedence ==
    (seg.op = "segment" /\ seg.start_location_id # "") =>
        LET exact == EntriesFor(seg.start_location_id, seg.end.id)
            default == EntriesFor(DefaultOrigin, seg.end.id)
        IN  /\ exact # <<>> => (seg.out[1].from = "exact" /\ LegIs(Last(exact)))
            /\ (exact = <<>> /\ default # <<>>)
                  => (seg.out[1].from = "default_origin" /\ LegIs(Last(default)))
            /\ (exact = <<>> /\ default = <<>>) <=> seg.out[1].from = "estimate"

\* A leg from hakone to kawaguchiko on a cache that holds an entry for the
\* pair and another from the default origin, with other values.
C15_Witness ==
    /\ seg.op = "segment"
    /\ seg.start_location_id = "hakone"
    /\ seg.end.id = "kawaguchiko"
    /\ EntriesFor("hakone", "kawaguchiko") # <<>>
    /\ EntriesFor(DefaultOrigin, "kawaguchiko") # <<>>
    /\ seg.out[1].distance_km = 552
    /\ seg.out[1].polyline # <<>>

(***************************************************************************)
(* The keyword search                                                      *)
(***************************************************************************)

\* C18: a search with require_ev_charging (require_overnight_parking) set
\* returns only locations whose EV-charging (overnight-parking) flag is
\* true, the entries added as padding included, and never more than
\* n_results entries.
C18_FiltersAndLimit ==
    know.op = "search" =>
        /\ Len(know.out) <= know.n_results
        /\ \A i \in DOMAIN know.out :
              /\ know.require_ev_charging => know.out[i].ev_charging
              /\ know.require_overnight_parking => know.out[i].overnight_parking
              /\ \E j \in DOMAIN cache.locations :
                    /\ cache.locations[j].id = know.out[i].id
                    /\ cache.locations[j].ev_charging = know.out[i].ev_charging
                    /\ cache.locations[j].overnight_parking = know.out[i].overnight_parking

\* A search that requires EV charging returned a location that matched the
\* query and one added as padding, on a cache that holds a location without
\* EV charging, and one more result was asked for than it gave.
C18_Witness ==
    /\ know.op = "search"
    /\ know.require_ev_charging
    /\ Len(know.out) = 2
    /\ know.n_results = 3
    /\ know.out[1].relevance_score.den # 10
    /\ know.out[2].relevance_score = [num |-> 3, den |-> 10]
    /\ \E j \in DOMAIN cache.locations : ~cache.locations[j].ev_charging

(***************************************************************************)
(* chat_stream of the fallback wrapper                                     *)
(***************************************************************************)

\* The streams in the order the call opened them, the mock's last.
StreamOrder(c) == c.tried \o <<MockFloor>>

PositionIn(s, x) == CHOOSE i \in DOMAIN s : s[i] = x

\* The tokens are blocks, one per stream and in the order of the streams,
\* each the first tokens of its stream in their order.
InBlocks(c) ==
    /\ c.out # <<>> => c.out[1][2] = 1
    /\ \A i \in 1..(Len(c.out) - 1) :
          \/ c.out[i + 1][1] = c.out[i][1] /\ c.out[i + 1][2] = c.out[i][2] + 1
          \/ /\ c.out[i + 1][2] = 1
             /\ PositionIn(StreamOrder(c), c.out[i][1])
                    < PositionIn(StreamOrder(c), c.out[i + 1][1])

\* What the stream that ended gave is all there, at the end.
EndsWithWholeStream(c) ==
    /\ Len(c.out) >= c.ntok
    /\ \A n \in 1..c.ntok : c.out[Len(c.out) - c.ntok + n] = <<c.result, n>>
    /\ \A i \in 1..(Len(c.out) - c.ntok) : c.out[i][1] # c.result

IsPrefix(s, t) == Len(s) <= Len(t) /\ SubSeq(t, 1, Len(s)) = s

\* The awaited variant of a chat_stream call raises in this step.
StreamVariantRaises ==
    /\ call[1].kind = "chat_stream"
    /\ call[1].pc = "awaiting"
    /\ \/ call'[1].pc = "mock"
       \/ call'[1].pc = "awaiting" /\ call'[1].idx # call[1].idx

\* C19: in chat_stream, when a variant raises after it yielded tokens, the
\* tokens stay delivered, the variant is marked failed and the next variant
\* that is not failed is streamed from its beginning: the consumer receives
\* the failed variants' partial prefixes, then the whole output of the one
\* variant (or the mock) that completes, and never tokens of two variants
\* interleaved.
C19_StreamFallsThrough ==
    /\ [](call[1].kind = "chat_stream" =>
            /\ InBlocks(call[1])
            /\ \A i \in DOMAIN call[1].out :
                  call[1].out[i][1] \in Range(StreamOrder(call[1]))
            /\ call[1].pc = "returned" => EndsWithWholeStream(call[1]))
    /\ [][ /\ (call[1].kind = "chat_stream" /\ call[1].pc \in {"awaiting", "mock"})
               => IsPrefix(call[1].out, call'[1].out)
           /\ StreamVariantRaises =>
                 /\ call'[1].out = call[1].out
                 /\ call'[1].ntok = 0
                 /\ \/ clients[call[1].idx] \in failed_providers'
                    \/ call'[1].pc = "mock" /\ failed_providers' = {}
                 /\ call'[1].pc = "awaiting" =>
                       /\ call'[1].idx > call[1].idx
                       /\ clients[call'[1].idx] \notin failed_providers' ]_vars

\* A stream call returned after its first variant raised with one token
\* delivered and its second variant streamed to its end.
C19_Witness ==
    /\ call[1].kind = "chat_stream"
    /\ call[1].pc = "returned"
    /\ Len(call[1].tried) = 2
    /\ call[1].result = call[1].tried[2]
    /\ call[1].out = <<<<call[1].tried[1], 1>>, <<call[1].tried[2], 1>>,
                       <<call[1].tried[2], 2>>>>
    /\ call[1].tried[1] \in failed_providers

\* --------------------------------------------------------------------------
\* Two first accesses of one cache. load() holds no await, so on the event
\* loop one access runs its load to the end before the next one starts; a
\* second access runs load() again exactly when the first left the cache
\* not loaded.
\* --------------------------------------------------------------------------

\* The cache a single load of the dataset leaves.
SingleLoad == Load(EmptyCache, file).cache

\* C21: when two (or more) first accesses each run the lazy load of the same
\* dataset, in whatever order they run, the locations map and the name,
\* type, tag and prefecture indexes equal those a single load produces.
C21_ConcurrentLoadsBenign ==
    gen.loads >= 1 =>
        /\ cache.locations = SingleLoad.locations
        /\ cache.name_index = SingleLoad.name_index
        /\ cache.type_index = SingleLoad.type_index
        /\ cache.tag_index = SingleLoad.tag_index
        /\ cache.prefecture_index = SingleLoad.prefecture_index

\* Two accesses each ran the load of a file whose second entry is invalid:
\* the locations map is that of one load, the name index is not.
C21_Witness ==
    /\ gen.loads = 2
    /\ ~cache.loaded
    /\ Len(file.entries) >= 2
    /\ cache.locations = SingleLoad.locations
    /\ Len(cache.locations) = 1
    /\ cache.name_index # SingleLoad.name_index
    /\ \E k \in DOMAIN cache.name_index :
           Len(cache.name_index[k].ids) = 2 * Len(SingleLoad.name_index[k].ids)

\* --------------------------------------------------------------------------
\* Waypoint entries of a decoded extraction
\* --------------------------------------------------------------------------

\* An entry that passes the validation of ExtractedWaypoint as the schema
\* declares it: name, type and order are required fields, type is one of
\* the enum's values and order is not negative.
PassesValidation(e) ==
    /\ e.t = "obj"
    /\ e.v.name.t = "str"
    /\ e.v.type.t = "str" /\ e.v.type.v \in WaypointTypes
    /\ e.v.order.t = "num" /\ e.v.order.v >= 0
    /\ ValidOptStr(e.v.purpose)
    /\ ValidOptStr(e.v.duration_hint)

\* The waypoints of the entries that pass validation, in their order.
RECURSIVE ValidEntriesInOrder(_)
ValidEntriesInOrder(entries) ==
    IF entries = <<>> THEN <<>>
    ELSE (IF PassesValidation(Head(entries))
          THEN <<[name |-> Head(entries).v.name.v, type |-> Head(entries).v.type.v,
                  order |-> Head(entries).v.order.v]>>
          ELSE <<>>) \o ValidEntriesInOrder(Tail(entries))

\* The decoded answer is an object whose waypoints array is not empty and
\* holds objects only, and whose other fields are valid.
ObjectEntriesOnly(d) ==
    /\ d # JInvalid
    /\ d.t = "obj"
    /\ d.v.waypoints.t = "list"
    /\ d.v.waypoints.v # <<>>
    /\ \A i \in 1..Len(d.v.waypoints.v) : d.v.waypoints.v[i].t = "obj"
    /\ ValidStrList(d.v.facility_types) /\ ValidStrList(d.v.amenities)

\* C22: of the entries of the decoded waypoints array, exactly those that
\* fail validation (unknown type value, missing name, type or order,
\* negative order) are dropped, the valid ones are kept in their order, and
\* the other fields of the extraction are parsed as they are without them.
C22_InvalidEntriesDropped ==
    parse_out.op = "extraction" /\ ObjectEntriesOnly(JsonLoads(llm_response)) =>
        /\ parse_out.exc = "none"
        /\ parse_out.value.waypoints
             = ValidEntriesInOrder(JsonLoads(llm_response).v.waypoints.v)
        /\ parse_out.value.facility_types = StrList(JsonLoads(llm_response).v.facility_types)
        /\ parse_out.value.amenities = StrList(JsonLoads(llm_response).v.amenities)
        /\ parse_out.value.original_query = original_query

\* An entry without name, type and order came after a valid one and was
\* kept, as a final waypoint with the empty name and order 0.
C22_Witness ==
    /\ parse_out.op = "extraction"
    /\ ObjectEntriesOnly(JsonLoads(llm_response))
    /\ Len(JsonLoads(llm_response).v.waypoints.v) = 2
    /\ PassesValidation(JsonLoads(llm_response).v.waypoints.v[1])
    /\ JsonLoads(llm_response).v.waypoints.v[2].v.name = JAbsent
    /\ parse_out.exc = "none"
    /\ Len(parse_out.value.waypoints) = 2
    /\ parse_out.value.waypoints[2] = [name |-> "", type |-> "final", order |-> 0]

\* The order values of the waypoints are pairwise distinct.
OrdersDistinct(waypoints) ==
    \A i, j \in DOMAIN waypoints : waypoints[i].order = waypoints[j].order => i = j

\* At most one waypoint is typed final.
AtMostOneFinal(waypoints) ==
    \A i, j \in DOMAIN waypoints :
        waypoints[i].type = "final" /\ waypoints[j].type = "final" => i = j

\* C23: every extraction the parser returns has waypoints of pairwise
\* distinct order, at most one of them typed final.
C23_WaypointInvariant ==
    parse_out.op = "extraction" /\ parse_out.exc = "none" =>
        /\ OrdersDistinct(parse_out.value.waypoints)
        /\ AtMostOneFinal(parse_out.value.waypoints)

\* The answer held two valid entries of order 0, or two valid entries typed
\* final, and the parser returned both.
C23_Witness ==
    /\ parse_out.op = "extraction"
    /\ parse_out.exc = "none"
    /\ Len(parse_out.value.waypoints) = 2
    /\ \A i \in 1..2 : PassesValidation(JsonLoads(llm_response).v.waypoints.v[i])
    /\ parse_out.value.facility_types # <<>>
    /\ \/ ~OrdersDistinct(parse_out.value.waypoints)
       \/ ~AtMostOneFinal(parse_out.value.waypoints)

\* --------------------------------------------------------------------------
\* Totals of the waypoint route
\* --------------------------------------------------------------------------

\* The waypoints of the call in visiting order, and the route cache.
TripWaypoints == VisitingOrder(trip.extraction.waypoints)

TripRoutes == LoadRoutes(<<>>, trip.entries)

\* The location the i-th waypoint's name resolves to, <<>> if none.
ResolvedAt(i) == FindLocationByName(cache, file, TripWaypoints[i].name).value

\* Where the leg to the i-th waypoint starts: at the last waypoint before
\* it that resolved, or at the origin.
RECURSIVE LegStart(_)
LegStart(i) ==
    IF i = 1 THEN OriginCoordinates
    ELSE IF ResolvedAt(i - 1) # <<>> THEN ResolvedAt(i - 1)[1]
    ELSE LegStart(i - 1)

\* The id the route cache is asked with: the default origin for the first
\* leg, the id of the waypoint before when it resolved, else none.
LegStartId(i) ==
    IF i = 1 THEN DefaultOrigin
    ELSE IF ResolvedAt(i - 1) # <<>> THEN ResolvedAt(i - 1)[1].id
    ELSE ""

\* What the i-th waypoint contributes: its leg when it resolves, 10 km and
\* 15 minutes when it does not.
Contribution(i) ==
    IF ResolvedAt(i) # <<>>
    THEN CalculateSegment(TripRoutes, LegStart(i), ResolvedAt(i)[1], LegStartId(i))
    ELSE [distance_km |-> 100, duration_minutes |-> 15]

RECURSIVE SumOfKm(_)
SumOfKm(n) == IF n = 0 THEN 0 ELSE SumOfKm(n - 1) + Contribution(n).distance_km

RECURSIVE SumOfMinutes(_)
SumOfMinutes(n) == IF n = 0 THEN 0 ELSE SumOfMinutes(n - 1) + Contribution(n).duration_minutes

\* The final destination of the call resolves, by name or by the search of
\* last resort.
FinalResolved == ResolveFinal(cache, file, TripWaypoints).value # <<>>

\* C24: in the waypoint branch the route is produced whether or not every
\* waypoint resolves, a waypoint that resolves to no location counts 10 km
\* and 15 minutes, and the distance and the duration of the candidate are
\* the sums of the contributions of the waypoints in visiting order.
C24_UnresolvedWaypointEstimate ==
    trip.op = "generate" /\ FinalResolved =>
        /\ trip.out.branch = "waypoint"
        /\ Len(trip.out.routes) = 1
        /\ trip.out.routes[1].distance_km = SumOfKm(Len(TripWaypoints))
        /\ trip.out.routes[1].duration_minutes = SumOfMinutes(Len(TripWaypoints))

\* Three waypoints, the second of which resolves to no location while the
\* first and the last do: the totals hold its 10 km and 15 minutes next to
\* the two legs.
C24_Witness ==
    /\ trip.op = "generate"
    /\ trip.out.branch = "waypoint"
    /\ Len(TripWaypoints) = 3
    /\ ResolvedAt(1) # <<>> /\ ResolvedAt(2) = <<>> /\ ResolvedAt(3) # <<>>
    /\ trip.out.routes[1].distance_km
         = Contribution(1).distance_km + 100 + Contribution(3).distance_km
    /\ trip.out.routes[1].duration_minutes
         = Contribution(1).duration_minutes + 15 + Contribution(3).duration_minutes
    /\ Contribution(3).from = "default_origin"

\* The location the final destination resolved to.
FinalLocation == ResolveFinal(cache, file, TripWaypoints).value[1]

\* The final waypoint is the one visited last.
FinalIsLast == FinalWaypoint(TripWaypoints) = Last(TripWaypoints)

\* The leg from the last resolved position to the resolved final location.
LastLeg ==
    CalculateSegment(TripRoutes, LegStart(Len(TripWaypoints)), FinalLocation,
                     LegStartId(Len(TripWaypoints)))

\* C25: whenever the final destination resolves, by exact name, by
\* substring or by the search of last resort, the totals of the route end
\* with a leg to the resolved final location, taken from the route cache or
\* estimated from the coordinates, and not with the 10 km and 15 minutes of
\* a waypoint that was not found.
C25_LastLegToResolvedFinal ==
    trip.op = "generate" /\ FinalResolved /\ FinalIsLast =>
        /\ trip.out.branch = "waypoint"
        /\ trip.out.routes[1].destination_name = FinalLocation.name
        /\ trip.out.routes[1].distance_km
             = SumOfKm(Len(TripWaypoints) - 1) + LastLeg.distance_km
        /\ trip.out.routes[1].duration_minutes
             = SumOfMinutes(Len(TripWaypoints) - 1) + LastLeg.duration_minutes

\* The final waypoint is named by no location and the search of last resort
\* resolved it: the route leads to that location, and its totals are the
\* leg to the waypoint before plus 10 km and 15 minutes.
C25_Witness ==
    /\ trip.op = "generate"
    /\ trip.out.branch = "waypoint"
    /\ FinalIsLast
    /\ Len(TripWaypoints) = 2
    /\ ResolvedAt(1) # <<>>
    /\ ResolvedAt(2) = <<>>
    /\ FinalLocation.id = "hakone"
    /\ trip.out.routes[1].destination_name = FinalLocation.name
    /\ trip.out.routes[1].distance_km = Contribution(1).distance_km + 100
    /\ trip.out.routes[1].duration_minutes = Contribution(1).duration_minutes + 15
    /\ LastLeg.distance_km # 100

\* --------------------------------------------------------------------------
\* The candidates and the routes of the orchestrator
\* --------------------------------------------------------------------------

\* No two entries of the sequence are equal.
PairwiseDistinct(ids) == \A i, j \in DOMAIN ids : ids[i] = ids[j] => i = j

\* C26: in every run of suggest_route and of suggest_route_stream, for
\* every extraction and for a Location Index with or without entries, the
\* candidates handed to the evaluation are between 1 and 10 and have
\* pairwise distinct ids, and building the RoutingContext does not fail.
C26_CandidatesOneToTen ==
    sug.op # "none" =>
        /\ Len(sug.candidates) >= 1
        /\ Len(sug.candidates) <= 10
        /\ PairwiseDistinct(sug.candidates)
        /\ sug.exc = "none"

\* A streamed request with waypoints on an index without entries: the mock
\* generator's four candidates were evaluated and four routes returned.
C26_Witness ==
    /\ sug.op = "suggest_route_stream"
    /\ Len(cache.locations) = 0
    /\ sug.extraction.waypoints # <<>>
    /\ sug.candidates = <<"A", "B", "C", "D">>
    /\ sug.exc = "none"
    /\ Len(sug.routes) = 4

\* [r.id for r in routes]
RouteIds(routes) == [i \in 1..Len(routes) |-> routes[i].id]

\* The ids of the ranking that name a candidate, each at its first place.
RECURSIVE RankedOnce(_, _, _)
RankedOnce(ranking, ids, seen) ==
    IF ranking = <<>> THEN <<>>
    ELSE IF Head(ranking) \in Range(ids) /\ Head(ranking) \notin seen
    THEN <<Head(ranking)>> \o RankedOnce(Tail(ranking), ids, seen \cup {Head(ranking)})
    ELSE RankedOnce(Tail(ranking), ids, seen)

\* The candidates the ranking does not name, in generation order.
Unranked(ranking, ids) == SelectSeq(ids, LAMBDA id : id \notin Range(ranking))

\* C27: the routes returned hold every generated candidate exactly once:
\* first the candidates the ranking names, in ranking order, then the
\* others in generation order; ranking ids of no candidate are ignored,
\* whatever the ranking (ids repeated, missing or unknown).
C27_EveryCandidateOnce ==
    sug.op # "none" /\ sug.exc = "none" =>
        /\ RouteIds(sug.routes)
             = RankedOnce(sug.ranking, sug.candidates, {}) \o Unranked(sug.ranking, sug.candidates)
        /\ \A id \in Range(sug.candidates) :
               Cardinality({i \in DOMAIN sug.routes : sug.routes[i].id = id}) = 1

\* The ranking named candidate A twice and an id of no candidate: the
\* routes hold A twice, ahead of the candidates that were not ranked.
C27_Witness ==
    /\ sug.op = "suggest_route"
    /\ sug.exc = "none"
    /\ sug.ranking = <<"A", "A", "Z">>
    /\ sug.candidates = <<"A", "B", "C", "D">>
    /\ RouteIds(sug.routes) = <<"A", "A", "B", "C", "D">>

\* --------------------------------------------------------------------------
\* The provider the wrapper reports
\* --------------------------------------------------------------------------

\* The provider of the client that produced a result: the variant itself,
\* and the mock for the response of the MockLLMClient built after every
\* variant failed.
ProducedBy(result) == IF result = MockFloor THEN "mock" ELSE result

\* C28: when a chat or chat_fast call on the wrapper returns, the active
\* client, whose provider and model the wrapper reports, is the variant
\* that produced the response just returned; it is the mock when the mock
\* floor served the response after every variant failed.
C28_ActiveClientProducedResponse ==
    [][\A k \in Calls :
          (/\ call[k].pc = "awaiting"
           /\ call[k].kind \in {"chat", "chat_fast"}
           /\ call'[k].pc = "returned")
          => active_client' = ProducedBy(call'[k].result)]_vars

\* Every variant of the chain raised in a chat call, the mock floor served
\* the response, and the wrapper still reports the first variant.
C28_Witness ==
    /\ call[1].pc = "returned"
    /\ call[1].kind = "chat"
    /\ call[1].result = MockFloor
    /\ call[1].tried = clients
    /\ Len(clients) = 3
    /\ active_client = clients[1]
    /\ active_client # "mock"

(***************************************************************************)
(* C29, C30: the combined search                                           *)
(***************************************************************************)
\* The weight of a rule, in tenths.
RuleWeight(rule) ==
    CASE rule = "name_exact" -> 150
      [] rule = "name_partial" -> 80
      [] rule = "facility_type" -> 100
      [] rule = "tag" -> 50
      [] rule = "amenity" -> 30
      [] rule = "ev_charging" -> 50
      [] rule = "quiet" -> 40
      [] rule = "scenery" -> 30
      [] rule = "nature" -> 30

RECURSIVE SumOfWeights(_)
SumOfWeights(reasons) ==
    IF reasons = <<>> THEN 0
    ELSE RuleWeight(Head(reasons).rule) + SumOfWeights(Tail(reasons))

\* how many times id is listed in ids
Listed(id, ids) == Cardinality({i \in DOMAIN ids : ids[i] = id})

Times(reason, n) == [i \in 1..n |-> reason]

Overlap(a, b) == In(a, b) \/ In(b, a)

\* The occurrences of the place-name rules for one location and one term:
\* a listing under the key equal to the term is an exact match; a listing
\* under a key that contains the term or is contained in it is a substring
\* match unless the location is listed under the exact key.
NameOccurrences(c, id, place) ==
    Times(Reason("name_exact", place), Listed(id, IndexGet(c.name_index, Lower(place))))
    \o FoldLeft(LAMBDA acc, item :
                   IF Overlap(Lower(place), item.key)
                      /\ Listed(id, IndexGet(c.name_index, Lower(place))) = 0
                   THEN acc \o Times(Reason("name_partial", place), Listed(id, item.ids))
                   ELSE acc,
                <<>>, c.name_index)

\* the listings under the tag keys that overlap the term
TagOccurrences(c, id, term, rule) ==
    FoldLeft(LAMBDA acc, item :
                IF Overlap(Lower(term), item.key)
                THEN acc \o Times(Reason(rule, term), Listed(id, item.ids))
                ELSE acc,
             <<>>, c.tag_index)

FacilityOccurrences(c, id, facility_type) ==
    FoldLeft(LAMBDA acc, m :
                IF Overlap(m[1], Lower(facility_type))
                THEN acc \o Times(Reason("facility_type", facility_type),
                                  Listed(id, IndexGet(c.type_index, m[2])))
                ELSE acc,
             <<>>, TypeMapping)
    \o TagOccurrences(c, id, facility_type, "tag")

AmenityOccurrences(c, loc, amenity) ==
    TagOccurrences(c, loc.id, amenity, "amenity")
    \o (IF (In(Word.Juden, Lower(amenity)) \/ In(<<"e", "v">>, Lower(amenity)))
           /\ loc.ev_charging
        THEN <<Reason("ev_charging", <<>>)>> ELSE <<>>)

AtmosphereOccurrences(loc, atm) ==
    (IF In(Word.Shizuka, Lower(atm)) /\ loc.noise_level = "low"
     THEN <<Reason("quiet", <<>>)>> ELSE <<>>)
    \o (IF (In(Word.Keshiki, Lower(atm)) \/ In(Word.Nagame, Lower(atm)))
           /\ loc.scenery_score >= 40
        THEN <<Reason("scenery", <<>>)>> ELSE <<>>)
    \o (IF In(Word.Shizen, Lower(atm))
           /\ loc.type \in {"camp", "lake", "mountain", "scenic", "park"}
        THEN <<Reason("nature", <<>>)>> ELSE <<>>)

\* Every rule occurrence that matches the location, in the order the rules
\* are applied: the place names, the facility types, the amenities, the
\* atmosphere, each list term by term.
Occurrences(c, loc, q) ==
    FoldLeft(LAMBDA acc, t : acc \o NameOccurrences(c, loc.id, t), <<>>, q.place_names)
    \o FoldLeft(LAMBDA acc, t : acc \o FacilityOccurrences(c, loc.id, t), <<>>, q.facility_types)
    \o FoldLeft(LAMBDA acc, t : acc \o AmenityOccurrences(c, loc, t), <<>>, q.amenities)
    \o FoldLeft(LAMBDA acc, t : acc \o AtmosphereOccurrences(loc, t), <<>>, q.atmosphere)

\* C29: every result of search carries one reason per rule occurrence that
\* matched its location, in the order the rules were applied, and its score
\* is the sum of the weights of these occurrences (exact name 15, substring
\* name 8, type mapping 10, facility tag 5, amenity tag 3, EV charging 5,
\* quiet 4, scenery 3, nature 3).
C29_ScoreIsSumOfOccurrences ==
    gen.op = "search_all" =>
        \A i \in DOMAIN gen.out :
            /\ gen.out[i].match_reasons = Occurrences(cache, gen.out[i].location, gen.arg.query)
            /\ gen.out[i].score = SumOfWeights(gen.out[i].match_reasons)

\* A search returned a location that five rule occurrences matched: the
\* type mapping, a tag it is listed under twice (as a tag and as a
\* facility), the EV rule and the quiet rule, scoring 10 + 5 + 5 + 5 + 4.
C29_Witness ==
    /\ gen.op = "search_all"
    /\ \E i \in DOMAIN gen.out :
          /\ gen.out[i].score = 290
          /\ gen.out[i].match_reasons =
                 <<Reason("facility_type", Word.Onsen), Reason("tag", Word.Onsen),
                   Reason("tag", Word.Onsen), Reason("ev_charging", <<>>),
                   Reason("quiet", <<>>)>>

\* the score the rules give a location: the sum over its occurrences
ScoreOf(c, loc, q) == SumOfWeights(Occurrences(c, loc, q))

\* `if prefecture:` then membership in the list of the prefecture
InPrefecture(loc, prefecture) == prefecture = "" \/ loc.prefecture = prefecture

\* the locations some rule matched, inside the prefecture when one is given
MatchedIn(c, q, prefecture) ==
    {j \in DOMAIN c.locations :
        Occurrences(c, c.locations[j], q) # <<>> /\ InPrefecture(c.locations[j], prefecture)}

\* the matched locations that are not among the results
Omitted(c, q, prefecture, out) ==
    {j \in MatchedIn(c, q, prefecture) :
        \A i \in DOMAIN out : out[i].location.id # c.locations[j].id}

Smaller(a, b) == IF a < b THEN a ELSE b

\* C30: search returns the `limit` highest-scoring matched locations of the
\* prefecture (of all prefectures when none is given) in non-increasing
\* score order: no result lies outside the prefecture, there are at most
\* `limit` results and as many as there are matches up to `limit`, each
\* location once, and no omitted match of the prefecture scores higher than
\* a result.
C30_TopOfPrefecture ==
    gen.op = "search_all" =>
        /\ \A i \in DOMAIN gen.out : InPrefecture(gen.out[i].location, gen.arg.prefecture)
        /\ \A i \in DOMAIN gen.out :
              \E j \in MatchedIn(cache, gen.arg.query, gen.arg.prefecture) :
                  gen.out[i].location = cache.locations[j]
        /\ \A i, j \in DOMAIN gen.out :
              gen.out[i].location.id = gen.out[j].location.id => i = j
        /\ Len(gen.out) <= gen.arg.limit
        /\ Len(gen.out) =
              Smaller(gen.arg.limit,
                      Cardinality(MatchedIn(cache, gen.arg.query, gen.arg.prefecture)))
        /\ \A i, j \in DOMAIN gen.out : i < j => gen.out[i].score >= gen.out[j].score
        /\ \A j \in Omitted(cache, gen.arg.query, gen.arg.prefecture, gen.out) :
              \A i \in DOMAIN gen.out :
                  ScoreOf(cache, cache.locations[j], gen.arg.query) <= gen.out[i].score

\* A search for one result in a prefecture returned its best match, while a
\* location of another prefecture scored higher and a lower-scoring match of
\* the prefecture was cut by the limit.
C30_Witness ==
    /\ gen.op = "search_all"
    /\ gen.arg.prefecture = "kanagawa"
    /\ gen.arg.limit = 1
    /\ Len(gen.out) = 1
    /\ Omitted(cache, gen.arg.query, "kanagawa", gen.out) # {}
    /\ \E j \in DOMAIN cache.locations :
          /\ cache.locations[j].prefecture = "yamanashi"
          /\ ScoreOf(cache, cache.locations[j], gen.arg.query) > gen.out[1].score

=============================================================================
